---------------------------- MODULE Spec2Model ----------------------------
(***************************************************************************)
(* A model of the browser back-end of the 3D Integration Tool:             *)
(*   - WebViewCanvas (src/ui/viewer_browser.py): the registry of model      *)
(*     files, the local HTTP server and its request handler ViewerHandler;  *)
(*   - GLTFViewerApp (src/main.py): the cross-thread file-selection queue   *)
(*     and the UI-thread tick that drains it.                               *)
(*                                                                         *)
(* Strings of the program (URL paths, file paths) are sequences of tokens:  *)
(* a token is a separator ("/", "\\", "?"), a percent-escape, the dot-dot   *)
(* name, or a piece of a file name.  A file-system path is a sequence of    *)
(* components, each component a non-empty sequence of tokens.               *)
(***************************************************************************)
EXTENDS Integers, Sequences, FiniteSets, TLC

None == "None"

\* None where a file path is expected (a path is a sequence of components).
NoPath == << <<"None">> >>

\* ------------------------------------------------------------- bounds

\* Longest request path, in tokens, that the static-route check enumerates.
MaxPathLen == 3

\* HTTP handler threads that run at the same time.
NumHandlers == 2

\* File-selection requests made in one run.
MaxRequests == 2

\* The time that passes in one step of the clock.
TimeStep == 30

\* Longest part name, in pieces, of a capture request.
MaxPartLen == 3

\* ------------------------------------------------- strings and paths

Range(s) == {s[i] : i \in 1..Len(s)}

SeqsUpTo(S, n) == UNION {[1..k -> S] : k \in 0..n}

IsPrefix(p, s) == Len(p) <= Len(s) /\ \A i \in 1..Len(p) : s[i] = p[i]

\* str.lstrip('/')
RECURSIVE Lstrip(_)
Lstrip(s) == IF s # <<>> /\ Head(s) = "/" THEN Lstrip(Tail(s)) ELSE s

\* str.split('?')[0]
RECURSIVE SplitQuery(_)
SplitQuery(s) ==
    IF s = <<>> \/ Head(s) = "?" THEN <<>> ELSE <<Head(s)>> \o SplitQuery(Tail(s))

\* urllib.parse.unquote, one escape at a time
UnquoteToken(t) ==
    CASE t = "%2F" -> "/"
      [] t = "%2E%2E" -> ".."
      [] OTHER -> t

Unquote(s) == [i \in 1..Len(s) |-> UnquoteToken(s[i])]

\* str.replace('\\', '/')
ReplaceBackslash(s) == [i \in 1..Len(s) |-> IF s[i] = "\\" THEN "/" ELSE s[i]]

\* 'needle' in s, for a needle that is one token
Contains(s, tok) == \E i \in 1..Len(s) : s[i] = tok

\* The "/"-separated components of a string, empty ones included.
RECURSIVE SplitSlash(_, _)
SplitSlash(s, cur) ==
    IF s = <<>> THEN <<cur>>
    ELSE IF Head(s) = "/" THEN <<cur>> \o SplitSlash(Tail(s), <<>>)
    ELSE SplitSlash(Tail(s), Append(cur, Head(s)))

Components(s) == SplitSlash(s, <<>>)

\* pathlib: root / rel.  An absolute right operand replaces the root.
JoinPath(root, rel) ==
    IF rel # <<>> /\ Head(rel) = "/" THEN Components(rel) ELSE root \o Components(rel)

\* Path.resolve() on a tree without symbolic links: empty components are
\* dropped and ".." removes the component before it (none at the root).
RECURSIVE ResolveFrom(_, _)
ResolveFrom(done, rest) ==
    IF rest = <<>> THEN done
    ELSE IF Head(rest) = <<>> THEN ResolveFrom(done, Tail(rest))
    ELSE IF Head(rest) = <<"..">>
         THEN ResolveFrom(IF done = <<>> THEN done ELSE SubSeq(done, 1, Len(done) - 1),
                          Tail(rest))
    ELSE ResolveFrom(Append(done, Head(rest)), Tail(rest))

Resolve(p) == ResolveFrom(<<>>, p)

\* os.path.basename of an absolute file path
Basename(p) == IF p = <<>> THEN <<>> ELSE p[Len(p)]

\* The extension of a file name, by its last token; "" when it is none of the
\* extensions the handler tells apart.
TokenSuffix(t) ==
    CASE t \in {"a.js", "draco_wasm_wrapper.js", "draco_decoder_gltf.js"} -> ".js"
      [] t = "index.html" -> ".html"
      [] t = "m.glb" -> ".glb"
      [] t = "n.gltf" -> ".gltf"
      [] OTHER -> ""

\* str.endswith(ext) for a string
EndsWith(s, ext) == s # <<>> /\ TokenSuffix(s[Len(s)]) = ext

\* Path.suffix
PathSuffix(p) == IF p = <<>> \/ Basename(p) = <<>> THEN ""
                 ELSE TokenSuffix(Basename(p)[Len(Basename(p))])

\* ------------------------------------------------------- file system

\* self.viewer_dir, already resolved
viewer_dir == << <<"viewer">> >>

IndexHtml == << <<"viewer">>, <<"index.html">> >>
ViewerScript == << <<"viewer">>, <<"a.js">> >>
DracoGltfJs == << <<"viewer">>, <<"draco_decoder_gltf.js">> >>
DracoGltfWasm == << <<"viewer">>, <<"draco_decoder_gltf.wasm">> >>
DracoWrapperJs == << <<"viewer">>, <<"draco_wasm_wrapper.js">> >>
SecretFile == << <<"secret">> >>

\* Model files the user can pick: two share a base name, one is gone from disk.
ModelA == << <<"d1">>, <<"m.glb">> >>
ModelB == << <<"d2">>, <<"m.glb">> >>
ModelC == << <<"d1">>, <<"n.gltf">> >>
ModelGone == << <<"d1">>, <<"gone.glb">> >>

ModelPaths == {ModelA, ModelB, ModelC, ModelGone}

\* Regular files on disk.
DiskFiles ==
    {IndexHtml, ViewerScript, DracoGltfJs, DracoWrapperJs, SecretFile, ModelA, ModelB, ModelC}

\* Directories on disk.
DiskDirs == {<<>>, viewer_dir, << <<"d1">> >>, << <<"d2">> >>}

\* os.path.exists / Path.exists
PathExists(p) == p \in DiskFiles \/ p \in DiskDirs

\* Path.is_file
IsFile(p) == p \in DiskFiles

\* The bytes of a file, and their number.
FileBytes(p) ==
    CASE p = IndexHtml -> "bytes:index.html"
      [] p = ViewerScript -> "bytes:a.js"
      [] p = DracoGltfJs -> "bytes:draco_decoder_gltf.js"
      [] p = DracoWrapperJs -> "bytes:draco_wasm_wrapper.js"
      [] p = SecretFile -> "bytes:secret"
      [] p = ModelA -> "bytes:d1/m.glb"
      [] p = ModelB -> "bytes:d2/m.glb"
      [] p = ModelC -> "bytes:d1/n.gltf"
      [] OTHER -> None

FileSize(p) ==
    CASE p = IndexHtml -> 11
      [] p = ViewerScript -> 12
      [] p = DracoGltfJs -> 13
      [] p = DracoWrapperJs -> 18
      [] p = SecretFile -> 14
      [] p = ModelA -> 15
      [] p = ModelB -> 16
      [] p = ModelC -> 17
      [] OTHER -> 0


\* -------------------------------------------------------------- state

VARIABLES
    \* WebViewCanvas
    current_file,      \* self.current_file: a path or NoPath
    model_files,       \* self.model_files: a list of paths
    http_server,       \* self.http_server: NoServer or the server object
    server_thread,     \* self.server_thread: None or what the serve thread does
    server_port,       \* self.server_port
    server_started,    \* self.server_started
    last_call,         \* the WebViewCanvas method that returned last, and how
    ui,                \* the UI thread inside load_gltf: [pc, file_path]
    handler,           \* each HTTP handler thread: [pc, file_path, req, waited]
    \* GLTFViewerApp
    file_selection_queue,    \* self._file_selection_queue: request ids, oldest first
    file_selection_pending,  \* self._file_selection_pending
    selection_requests,      \* every request made: its event and result container
    external_update_queue,   \* self._external_update_queue
    loaded_files,            \* self.loaded_files: [path, source] entries
    current_scene,           \* self.current_scene: the scene's file path or NoPath
    scheduled_polls,         \* pending after() callbacks of the poll
    dialog_stack,            \* the requests whose file dialog is open, innermost last
    serviced,                \* the requests in the order their dialog was opened
    \* ViewerHandler
    file_cache,        \* ViewerHandler._file_cache: the cached file paths
    http_request,      \* the request last handled: [path, command], or None
    http_response,     \* the response sent for it, or None
    app_ref,           \* WebViewCanvas.app_ref, which each new handler is given
    post,              \* each handler thread's POST: [request, response]
    toolkit_calls,     \* the GUI-toolkit operations run on handler threads
    \* WebViewCanvas, the image export
    export_folder,     \* self.export_folder: a folder path or NoPath
    export_files       \* the files the capture handler has written: [path, content]

registryVars == <<current_file, model_files>>
serverVars == <<http_server, server_thread, server_port, server_started>>
threadVars == <<ui, handler>>
appVars == <<file_selection_queue, file_selection_pending, selection_requests,
             external_update_queue, loaded_files, current_scene, scheduled_polls,
             dialog_stack, serviced>>
postVars == <<app_ref, post, toolkit_calls, export_folder, export_files>>
httpVars == <<file_cache, http_request, http_response, postVars>>

\* ------------------------------------------- ViewerHandler.do_GET

Response(status, ctype, length, cors, body) ==
    [status |-> status, ctype |-> ctype, length |-> length, cors |-> cors, body |-> body]

\* No Content-Length header.
NoLength == 0 - 1

\* path.startswith('model/')
IsModelRoute(path) == Len(path) >= 2 /\ path[1] = "model" /\ path[2] = "/"

\* path == '' or path == 'index.html'
IsIndexRoute(path) == path = <<>> \/ path = <<"index.html">>

\* path.startswith('.well-known/') or '/.well-known/' in path
IsWellKnown(path) ==
    \/ Len(path) >= 2 /\ path[1] = ".well-known" /\ path[2] = "/"
    \/ \E i \in 1..Len(path) :
          i + 2 <= Len(path) /\ path[i] = "/" /\ path[i+1] = ".well-known" /\ path[i+2] = "/"

\* path.replace('model/', '')
RECURSIVE RemoveModelPrefix(_)
RemoveModelPrefix(s) ==
    IF s = <<>> THEN <<>>
    ELSE IF IsModelRoute(s) THEN RemoveModelPrefix(SubSeq(s, 3, Len(s)))
    ELSE <<Head(s)>> \o RemoveModelPrefix(Tail(s))

\* The fallback without its comparison of names: the current file stands in
\* for any name that is not registered.
LookupModel_AnyCurrent(file_name, mf, cf) ==
    IF \E i \in 1..Len(mf) : Basename(mf[i]) = file_name
    THEN mf[CHOOSE i \in 1..Len(mf) :
                /\ Basename(mf[i]) = file_name
                /\ \A j \in 1..(i-1) : Basename(mf[j]) # file_name]
    ELSE cf

\* The first entry of model_files with this base name, else the current file
\* when it has this base name, else NoPath.
LookupModel(file_name, mf, cf) ==
    IF \E i \in 1..Len(mf) : Basename(mf[i]) = file_name
    THEN mf[CHOOSE i \in 1..Len(mf) :
                /\ Basename(mf[i]) = file_name
                /\ \A j \in 1..(i-1) : Basename(mf[j]) # file_name]
    ELSE IF cf # NoPath /\ Basename(cf) = file_name THEN cf
    ELSE NoPath

\* The /model/ route: the whole file is streamed, whatever the command.
ServeModel(file_path) ==
    IF file_path # NoPath /\ PathExists(file_path)
    THEN Response(200,
                  IF EndsWith(Basename(file_path), ".gltf") THEN "model/gltf+json"
                  ELSE IF EndsWith(Basename(file_path), ".glb") THEN "model/gltf-binary"
                  ELSE "application/octet-stream",
                  FileSize(file_path), TRUE, FileBytes(file_path))
    ELSE Response(404, "text/plain", NoLength, FALSE, "Model file not found")

\* _get_html_without_file: the text of index.html, or a fixed page.
get_html_without_file ==
    IF PathExists(IndexHtml) THEN FileBytes(IndexHtml)
    ELSE "<html><body><h1>Viewer not found</h1></body></html>"

\* The document rewritten to name the model it is to load.
get_html_with_file_Rewriting(file_url) ==
    IF PathExists(IndexHtml) THEN "bytes:index.html with the model's URL"
    ELSE get_html_without_file

\* _get_html_with_file: file_url is not used.
get_html_with_file(file_url) ==
    IF PathExists(IndexHtml) THEN FileBytes(IndexHtml)
    ELSE get_html_without_file

\* The entry document: current_file chooses between the two readers.
ServeIndex(cf) ==
    Response(200, "text/html", NoLength, TRUE,
             IF cf # NoPath /\ PathExists(cf)
             THEN get_html_with_file(<<"/", "model", "/">> \o Basename(cf))
             ELSE get_html_without_file)

NotFound == Response(404, None, NoLength, FALSE, None)

\* The check left out: no path is taken to leave the viewer directory.
EscapesViewerDir_Unchecked(file_path) == FALSE

\* file_path.relative_to(viewer_dir_resolved) raises ValueError
EscapesViewerDir(file_path) == ~IsPrefix(viewer_dir, file_path)

\* The decoder aliases: the file served for a request that passed the check.
AliasedPath(normalized_path, file_path) ==
    IF Contains(normalized_path, "draco_wasm_wrapper.js")
       \/ Contains(normalized_path, "draco wasm wrapper.js")
    THEN IF PathExists(DracoGltfJs) THEN DracoGltfJs ELSE file_path
    ELSE IF /\ Contains(normalized_path, "draco_decoder.js")
            /\ ~PathExists(file_path) /\ PathExists(DracoGltfJs)
    THEN DracoGltfJs
    ELSE IF /\ Contains(normalized_path, "draco_decoder.wasm")
            /\ ~PathExists(file_path) /\ PathExists(DracoGltfWasm)
    THEN DracoGltfWasm
    ELSE file_path

StaticContentType(normalized_path, file_path) ==
    IF EndsWith(normalized_path, ".js") \/ PathSuffix(file_path) = ".js"
    THEN "application/javascript"
    ELSE IF EndsWith(normalized_path, ".css") \/ PathSuffix(file_path) = ".css"
    THEN "text/css"
    ELSE IF EndsWith(normalized_path, ".html") \/ PathSuffix(file_path) = ".html"
    THEN "text/html"
    ELSE IF EndsWith(normalized_path, ".wasm") \/ PathSuffix(file_path) = ".wasm"
    THEN "application/wasm"
    ELSE IF EndsWith(normalized_path, ".json") \/ PathSuffix(file_path) = ".json"
    THEN "application/json"
    ELSE "application/octet-stream"

\* Every file that is served is memoized.
UseCache_Always(normalized_path, file_path) == TRUE

UseCache(normalized_path, file_path) ==
    /\ PathSuffix(file_path) \in {".js", ".css", ".wasm", ".json"}
    /\ ~EndsWith(normalized_path, ".html")

\* if use_cache and cache_key in self._file_cache: the body comes from the
\* cache and the file is not read.
CacheHit(normalized_path, file_path, cache) ==
    UseCache(normalized_path, file_path) /\ file_path \in cache

\* The static route: [resp, cache], the response and the cache after it.
ServeStatic(path, command, cache) ==
    LET normalized_path == ReplaceBackslash(Lstrip(path))
        resolved == Resolve(JoinPath(viewer_dir, normalized_path))
        file_path == AliasedPath(normalized_path, resolved)
    IN  IF IsWellKnown(path) THEN [resp |-> NotFound, cache |-> cache]
        ELSE IF EscapesViewerDir(resolved) THEN [resp |-> NotFound, cache |-> cache]
        ELSE IF PathExists(file_path) /\ IsFile(file_path)
        THEN IF command = "HEAD"
             THEN [resp |-> Response(200, StaticContentType(normalized_path, file_path),
                                     FileSize(file_path), TRUE, None),
                   cache |-> cache]
             ELSE [resp |-> Response(200, StaticContentType(normalized_path, file_path),
                                     FileSize(file_path), TRUE, FileBytes(file_path)),
                   cache |-> IF UseCache(normalized_path, file_path)
                             THEN cache \cup {file_path} ELSE cache]
        ELSE [resp |-> NotFound, cache |-> cache]

\* The path do_GET routes on: the query cut off, leading slashes stripped,
\* percent-escapes decoded.
ParsePath(raw) == Unquote(Lstrip(SplitQuery(raw)))

\* do_GET (and do_HEAD, which calls it): [resp, cache].
do_GET(raw, command, mf, cf, cache) ==
    LET path == ParsePath(raw)
    IN  IF IsModelRoute(path)
        THEN [resp |-> ServeModel(LookupModel(RemoveModelPrefix(path), mf, cf)),
              cache |-> cache]
        ELSE IF IsIndexRoute(path) THEN [resp |-> ServeIndex(cf), cache |-> cache]
        ELSE ServeStatic(path, command, cache)

\* Where do_GET writes a response body for this request, and whether that
\* write stands inside a try statement that catches ConnectionResetError,
\* BrokenPipeError and OSError. Both branches of the /model/ route and the
\* index route write outside any try statement; the static route writes a
\* body only for a GET of a file that is there, inside one.
BodyWrite(raw, command, mf, cf, cache) ==
    LET path == ParsePath(raw)
    IN  IF IsModelRoute(path) \/ IsIndexRoute(path)
        THEN [writes |-> TRUE, guarded |-> FALSE]
        ELSE [writes |-> /\ command # "HEAD"
                         /\ ServeStatic(path, command, cache).resp.status = 200,
              guarded |-> TRUE]

\* What is left of a response whose body write met a closed connection:
\* the status line and headers went out, the body did not, and raised
\* names the exception that leaves do_GET, if one does.
ResetResponse(resp, raised) ==
    [status |-> resp.status, ctype |-> resp.ctype, length |-> resp.length,
     cors |-> resp.cors, body |-> None, raised |-> raised]

\* ------------------------------------------------------- requests

PathTokens ==
    {"/", "\\", "..", "%2F", "%2E%2E", "?", "viewer", "secret", "a.js",
     "index.html", "model", ".well-known", "draco_wasm_wrapper.js"}

RequestPaths == SeqsUpTo(PathTokens, MaxPathLen)

Commands == {"GET", "HEAD"}

NoRequest == [path |-> <<>>, command |-> None]
NoResponse == Response(0, None, NoLength, FALSE, None)

\* The handler thread answers the request it was created for.
HandleGet ==
    LET r == do_GET(http_request.path, http_request.command,
                    model_files, current_file, file_cache)
    IN  /\ http_request.command \in Commands
        /\ http_response = NoResponse
        /\ http_response' = r.resp
        /\ file_cache' = r.cache
        /\ UNCHANGED <<http_request, postVars>>

\* The client closes the connection while the body is written. On the
\* static route the file has been read and cached before the write.
HandleGetReset ==
    LET r == do_GET(http_request.path, http_request.command,
                    model_files, current_file, file_cache)
        w == BodyWrite(http_request.path, http_request.command,
                       model_files, current_file, file_cache)
    IN  /\ http_request.command \in Commands
        /\ http_response = NoResponse
        /\ w.writes
        /\ http_response' =
               ResetResponse(r.resp, IF w.guarded THEN None ELSE "ConnectionResetError")
        /\ file_cache' = r.cache
        /\ UNCHANGED <<http_request, postVars>>

\* ------------------- the handlers of the other renderer back-ends

\* The renderers that bring their own ViewerHandler: viewer.py (pywebview),
\* viewer_embedded.py (CEF) and viewer_tkinter.py.
Backends == {"pywebview", "embedded", "tkinter"}

\* A path that names nothing on disk.
NoSuchPath == << <<"ENOENT">> >>

\* The file system's own walk along an unresolved path: every component is
\* looked up in a directory that is there, ".." steps to the parent.
RECURSIVE WalkFrom(_, _)
WalkFrom(done, rest) ==
    IF rest = <<>> THEN done
    ELSE IF done \notin DiskDirs THEN NoSuchPath
    ELSE IF Head(rest) = <<>> THEN WalkFrom(done, Tail(rest))
    ELSE IF Head(rest) = <<"..">>
         THEN WalkFrom(IF done = <<>> THEN done ELSE SubSeq(done, 1, Len(done) - 1),
                       Tail(rest))
    ELSE WalkFrom(Append(done, Head(rest)), Tail(rest))

\* The file an unresolved path opens.
Walk(p) == WalkFrom(<<>>, p)

\* path == name or path.endswith('/' + name)
NamesFile(path, name) ==
    \/ path = <<name>>
    \/ Len(path) >= 2 /\ path[Len(path)] = name /\ path[Len(path) - 1] = "/"

\* The /model/ route of viewer.py and viewer_embedded.py: the current file,
\* whatever name is asked for.
ServeCurrent(cf, with_length) ==
    IF cf # NoPath /\ PathExists(cf)
    THEN Response(200,
                  IF EndsWith(Basename(cf), ".gltf") THEN "model/gltf+json"
                  ELSE IF EndsWith(Basename(cf), ".glb") THEN "model/gltf-binary"
                  ELSE "application/octet-stream",
                  IF with_length THEN FileSize(cf) ELSE NoLength, TRUE, FileBytes(cf))
    ELSE Response(404, "text/plain", NoLength, FALSE, "Model file not found")

\* The index route of the three: index.html as it is, or 404.
ServeIndexFile ==
    IF PathExists(IndexHtml)
    THEN Response(200, "text/html", NoLength, TRUE, FileBytes(IndexHtml))
    ELSE NotFound

\* The static route of viewer.py: the browser handler's, without a cache
\* and with aliases for draco_decoder.js and draco_decoder.wasm only.
serve_static_pywebview(path) ==
    LET normalized_path == ReplaceBackslash(Lstrip(path))
        resolved == Resolve(JoinPath(viewer_dir, normalized_path))
        file_path ==
            IF /\ NamesFile(normalized_path, "draco_decoder.js")
               /\ ~PathExists(resolved) /\ PathExists(DracoGltfJs)
            THEN DracoGltfJs
            ELSE IF /\ NamesFile(normalized_path, "draco_decoder.wasm")
                    /\ ~PathExists(resolved) /\ PathExists(DracoGltfWasm)
            THEN DracoGltfWasm
            ELSE resolved
    IN  IF IsWellKnown(path) THEN NotFound
        ELSE IF EscapesViewerDir(resolved) THEN NotFound
        ELSE IF PathExists(file_path) /\ IsFile(file_path)
        THEN Response(200, StaticContentType(normalized_path, file_path), NoLength, TRUE,
                      FileBytes(file_path))
        ELSE NotFound

\* The static route of viewer_embedded.py: file_path = self.viewer_dir / path,
\* opened as it stands.
serve_static_embedded(path) ==
    LET joined == Walk(JoinPath(viewer_dir, path))
        file_path ==
            IF /\ \/ NamesFile(path, "draco_decoder.js")
                  \/ NamesFile(path, "draco_wasm_wrapper.js")
               /\ ~PathExists(joined) /\ PathExists(DracoGltfJs)
            THEN DracoGltfJs
            ELSE IF /\ NamesFile(path, "draco_decoder.wasm")
                    /\ ~PathExists(joined) /\ PathExists(DracoGltfWasm)
            THEN DracoGltfWasm
            ELSE joined
    IN  IF PathExists(file_path) /\ IsFile(file_path)
        THEN Response(200,
                      IF EndsWith(path, ".js") \/ PathSuffix(file_path) = ".js"
                      THEN "application/javascript"
                      ELSE IF EndsWith(path, ".css") \/ PathSuffix(file_path) = ".css"
                      THEN "text/css"
                      ELSE IF EndsWith(path, ".html") \/ PathSuffix(file_path) = ".html"
                      THEN "text/html"
                      ELSE IF EndsWith(path, ".wasm") \/ PathSuffix(file_path) = ".wasm"
                      THEN "application/wasm"
                      ELSE "application/octet-stream",
                      NoLength, TRUE, FileBytes(file_path))
        ELSE NotFound

\* The static route of viewer_tkinter.py.
serve_static_tkinter(path) ==
    LET file_path == Walk(JoinPath(viewer_dir, path))
    IN  IF PathExists(file_path) /\ IsFile(file_path)
        THEN Response(200,
                      IF EndsWith(path, ".js") THEN "application/javascript"
                      ELSE IF EndsWith(path, ".css") THEN "text/css"
                      ELSE IF EndsWith(path, ".wasm") THEN "application/wasm"
                      ELSE "application/octet-stream",
                      NoLength, TRUE, FileBytes(file_path))
        ELSE NotFound

\* The path each handler routes on: viewer.py and viewer_embedded.py cut
\* the query, strip and decode; viewer_tkinter.py strips, then cuts the
\* query, and does not decode.
BackendPath(backend, raw) ==
    IF backend = "tkinter" THEN SplitQuery(Lstrip(raw)) ELSE ParsePath(raw)

\* do_GET of the back-end's handler.
do_GET_backend(backend, raw, cf) ==
    LET path == BackendPath(backend, raw)
    IN  IF backend # "tkinter" /\ IsModelRoute(path)
        THEN ServeCurrent(cf, backend = "embedded")
        ELSE IF IsIndexRoute(path) THEN ServeIndexFile
        ELSE IF backend = "pywebview" THEN serve_static_pywebview(path)
        ELSE IF backend = "embedded" THEN serve_static_embedded(path)
        ELSE serve_static_tkinter(path)

\* The handler thread of a back-end answers the request it was created for.
AnswerBackend ==
    /\ http_request.command = "GET"
    /\ http_response = NoResponse
    /\ http_response' = do_GET_backend(http_request.backend, http_request.path,
                                       current_file)
    /\ UNCHANGED <<http_request, file_cache, postVars, registryVars, serverVars,
                   last_call, threadVars, appVars>>

\* ------------------------------------------- the local HTTP server

\* WebViewCanvas.__init__: self.server_port = 8765
FirstPort == 8765

\* range(self.server_port, self.server_port + 10)
PortSpan == 10

\* _wait_for_server_ready(timeout_seconds=20): the probes before it gives up
ReadyProbes == 20

\* The highest port a start may probe: starts from a port whose range would
\* pass it are left out.
MaxPort == 8776

\* The environment occupies the lowest k ports of the probed range, k up to
\* MaxBusy, or else all of them.
MaxBusy == 1

NoServer == [port |-> 0, closed |-> TRUE]

ProbedPorts(sp) == sp..(sp + PortSpan - 1)

\* The sets of ports other processes may hold when a start probes from sp.
Occupancies(sp) == {sp..(sp + k - 1) : k \in 0..MaxBusy} \cup {ProbedPorts(sp)}

Srv == [http_server |-> http_server, server_thread |-> server_thread,
        server_port |-> server_port, server_started |-> server_started]

\* is_server_running
is_server_running(s) == s.server_started /\ s.http_server # NoServer

Min(S) == CHOOSE x \in S : \A y \in S : x <= y

\* The loop over the ports: the server object after it.  A port that is
\* taken raises OSError and leaves self.http_server as it was.
ProbePorts(s, occupied) ==
    LET free == ProbedPorts(s.server_port) \ occupied
    IN  IF free = {} THEN s
        ELSE [s EXCEPT !.http_server = [port |-> Min(free), closed |-> FALSE],
                       !.server_port = Min(free)]

\* The serve thread: serve_forever on a closed listener raises at once.
ServeThread(hs) == IF hs.closed THEN "failed" ELSE "serving"

\* The start without its guard: it probes and binds even when running.
start_local_server_Unguarded(s, occupied) ==
    LET t == ProbePorts(s, occupied)
    IN  IF t.http_server # NoServer
        THEN [t EXCEPT !.server_thread = ServeThread(t.http_server),
                       !.server_started = TRUE]
        ELSE t

\* _start_local_server, with the ports other processes hold
start_local_server(s, occupied) ==
    IF s.server_started /\ s.http_server # NoServer THEN s
    ELSE LET t == ProbePorts(s, occupied)
         IN  IF t.http_server # NoServer
             THEN [t EXCEPT !.server_thread = ServeThread(t.http_server),
                            !.server_started = TRUE]
             ELSE t

\* stop_server
stop_server(s) ==
    IF s.http_server # NoServer /\ s.server_started
    THEN [s EXCEPT !.http_server = [@ EXCEPT !.closed = TRUE],
                   !.server_thread = IF @ = "serving" THEN "finished" ELSE @,
                   !.server_started = FALSE]
    ELSE s

\* Our own listener accepts connections on self.server_port.
Listening(s) ==
    /\ s.http_server # NoServer /\ ~s.http_server.closed
    /\ s.http_server.port = s.server_port

\* _wait_for_server_ready: [ready, probes].  A probe connects when our
\* listener or, with foreign, another process listens on self.server_port.
wait_for_server_ready(s, foreign) ==
    IF s.server_port # 0 /\ s.server_started /\ (Listening(s) \/ foreign)
    THEN [ready |-> TRUE, probes |-> 1]
    ELSE [ready |-> FALSE, probes |-> ReadyProbes]

\* What the environment decides during one call: the ports other processes
\* hold, whether one of them listens on self.server_port, and whether the
\* browser opens.
Environments(s) ==
    [occupied : Occupancies(s.server_port), foreign : BOOLEAN, browser : BOOLEAN]

\* Every port a start would probe is held by another process.
Exhausted(s, env) == ProbedPorts(s.server_port) \subseteq env.occupied

CallRecord(op, arg, result, started, exhausted, probes) ==
    [op |-> op, arg |-> arg, result |-> result, started |-> started,
     exhausted |-> exhausted, probes |-> probes]

SetServerNow(s) ==
    /\ http_server = s.http_server
    /\ server_thread = s.server_thread
    /\ server_port = s.server_port
    /\ server_started = s.server_started

SetServer(s) ==
    /\ http_server' = s.http_server
    /\ server_thread' = s.server_thread
    /\ server_port' = s.server_port
    /\ server_started' = s.server_started

\* Starts are left out once the probed range would pass MaxPort.
CanProbe == server_port + PortSpan - 1 <= MaxPort

\* _start_local_server, called by the app (_on_open_browser)
StartLocalServer ==
    /\ CanProbe
    /\ \E env \in Environments(Srv) :
          /\ SetServer(start_local_server(Srv, env.occupied))
          /\ last_call' = CallRecord("start_local_server", NoPath, TRUE,
                                     ~is_server_running(Srv), Exhausted(Srv, env), 0)
    /\ UNCHANGED <<registryVars, httpVars, threadVars, appVars>>

\* stop_server, called by the app (_on_stop_server)
StopServer ==
    /\ SetServer(stop_server(Srv))
    /\ last_call' = CallRecord("stop_server", NoPath, TRUE, FALSE, FALSE, 0)
    /\ UNCHANGED <<registryVars, httpVars, threadVars, appVars>>

\* The server part of load_gltf and open_browser_viewer: start the server
\* when it is not started, wait for it, open the browser.
\* [srv, result, started, probes]
ServeAndOpen(s, env, second_probe) ==
    LET t == IF ~s.server_started THEN start_local_server(s, env.occupied) ELSE s
        w == wait_for_server_ready(t, env.foreign)
        reachable == Listening(t) \/ env.foreign
        ok == /\ w.ready
              /\ second_probe => (t.server_port # 0 /\ reachable)
              /\ env.browser
    IN  [srv |-> t, result |-> ok, started |-> ~s.server_started, probes |-> w.probes]

\* open_browser_viewer
OpenBrowserViewer ==
    /\ CanProbe
    /\ \E env \in Environments(Srv) :
          LET r == ServeAndOpen(Srv, env, FALSE)
          IN  /\ SetServer(r.srv)
              /\ last_call' = CallRecord("open_browser_viewer", NoPath, r.result, r.started,
                                         r.started /\ Exhausted(Srv, env), r.probes)
    /\ UNCHANGED <<registryVars, httpVars, threadVars, appVars>>

\* ------------------------------------------------ the model registry

\* The membership test left out: the path is appended every time.
AppendAlways(mf, file_path) == Append(mf, file_path)

\* if file_path not in self.model_files: self.model_files.append(file_path)
AppendIfAbsent(mf, file_path) ==
    IF file_path \in Range(mf) THEN mf ELSE Append(mf, file_path)

\* add_model_file, run to its end: [model_files, current_file]
add_model_file(mf, cf, file_path) ==
    IF file_path # NoPath /\ PathExists(file_path)
    THEN [model_files |-> AppendIfAbsent(mf, file_path), current_file |-> file_path]
    ELSE [model_files |-> mf, current_file |-> cf]

AddModelFile(file_path) ==
    LET r == add_model_file(model_files, current_file, file_path)
    IN  /\ model_files' = r.model_files
        /\ current_file' = r.current_file
        /\ last_call' = CallRecord("add_model_file", file_path, TRUE, FALSE, FALSE, 0)
        /\ UNCHANGED <<serverVars, httpVars, threadVars, appVars>>

\* load_gltf, run to its end
LoadGltf(file_path) ==
    /\ CanProbe
    /\ IF ~PathExists(file_path)
       THEN /\ last_call' = CallRecord("load_gltf", file_path, FALSE, FALSE, FALSE, 0)
            /\ UNCHANGED <<registryVars, serverVars>>
       ELSE \E env \in Environments(Srv) :
               LET r == ServeAndOpen(Srv, env, TRUE)
               IN  /\ current_file' = file_path
                   /\ model_files' = AppendIfAbsent(model_files, file_path)
                   /\ SetServer(r.srv)
                   /\ last_call' = CallRecord("load_gltf", file_path, r.result, r.started,
                                              r.started /\ Exhausted(Srv, env), r.probes)
    /\ UNCHANGED <<httpVars, threadVars, appVars>>

\* clear
Clear ==
    /\ current_file' = NoPath
    /\ last_call' = CallRecord("clear", NoPath, TRUE, FALSE, FALSE, 0)
    /\ UNCHANGED <<model_files, serverVars, httpVars, threadVars, appVars>>

\* ------------------------------------------------------- threads

Handlers == 1..NumHandlers

UiIdle == [pc |-> "idle", file_path |-> NoPath]
HandlerIdle == [pc |-> "idle", file_path |-> NoPath, req |-> 0, waited |-> 0]

\* -------------------------- add_model_file and load_gltf, step by step

SetHandler(t, pc, file_path) ==
    handler' = [handler EXCEPT ![t] = [@ EXCEPT !.pc = pc, !.file_path = file_path]]

\* A handler thread calls add_model_file: if file_path and os.path.exists(...)
AddBegin(t, file_path) ==
    /\ handler[t].pc = "idle"
    /\ IF file_path # NoPath /\ PathExists(file_path)
       THEN SetHandler(t, "add_test", file_path) /\ UNCHANGED last_call
       ELSE /\ last_call' = CallRecord("add_model_file", file_path, TRUE, FALSE, FALSE, 0)
            /\ UNCHANGED handler
    /\ UNCHANGED <<registryVars, serverVars, ui, appVars, httpVars>>

\* if file_path not in self.model_files
AddTest(t) ==
    /\ handler[t].pc = "add_test"
    /\ SetHandler(t, IF handler[t].file_path \in Range(model_files)
                     THEN "add_set" ELSE "add_append", handler[t].file_path)
    /\ UNCHANGED <<registryVars, serverVars, last_call, ui, appVars, httpVars>>

\* self.model_files.append(file_path)
AddAppend(t) ==
    /\ handler[t].pc = "add_append"
    /\ model_files' = Append(model_files, handler[t].file_path)
    /\ SetHandler(t, "add_set", handler[t].file_path)
    /\ UNCHANGED <<current_file, serverVars, last_call, ui, appVars, httpVars>>

\* self.current_file = file_path, and the call returns
AddSetCurrent(t) ==
    /\ handler[t].pc = "add_set"
    /\ current_file' = handler[t].file_path
    /\ last_call' = CallRecord("add_model_file", handler[t].file_path, TRUE, FALSE, FALSE, 0)
    /\ SetHandler(t, "idle", NoPath)
    /\ UNCHANGED <<model_files, serverVars, ui, appVars, httpVars>>

\* The UI thread calls load_gltf: the existence check and
\* self.current_file = file_path
LoadBegin(file_path) ==
    /\ ui.pc = "idle"
    /\ IF ~PathExists(file_path)
       THEN /\ last_call' = CallRecord("load_gltf", file_path, FALSE, FALSE, FALSE, 0)
            /\ UNCHANGED <<current_file, ui>>
       ELSE /\ current_file' = file_path
            /\ ui' = [pc |-> "load_test", file_path |-> file_path]
            /\ UNCHANGED last_call
    /\ UNCHANGED <<model_files, serverVars, handler, appVars, httpVars>>

\* if file_path not in self.model_files
LoadTest ==
    /\ ui.pc = "load_test"
    /\ ui' = [ui EXCEPT !.pc = IF ui.file_path \in Range(model_files)
                                THEN "load_serve" ELSE "load_append"]
    /\ UNCHANGED <<registryVars, serverVars, last_call, handler, appVars, httpVars>>

\* self.model_files.append(file_path)
LoadAppend ==
    /\ ui.pc = "load_append"
    /\ model_files' = Append(model_files, ui.file_path)
    /\ ui' = [ui EXCEPT !.pc = "load_serve"]
    /\ UNCHANGED <<current_file, serverVars, last_call, handler, appVars, httpVars>>

\* The rest of load_gltf: the server is started and waited for, the browser
\* is opened, and the call returns.
LoadServe ==
    /\ ui.pc = "load_serve"
    /\ CanProbe
    /\ \E env \in Environments(Srv) :
          LET r == ServeAndOpen(Srv, env, TRUE)
          IN  /\ SetServer(r.srv)
              /\ last_call' = CallRecord("load_gltf", ui.file_path, r.result, r.started,
                                         r.started /\ Exhausted(Srv, env), r.probes)
    /\ ui' = UiIdle
    /\ UNCHANGED <<registryVars, handler, appVars, httpVars>>

\* clear, on the UI thread between its other calls
ClearByUi == ui.pc = "idle" /\ Clear

\* ------------------------------- the file-selection queue and the tick

\* main.py: result_event.wait(timeout=60)
SelectionTimeout == 60

\* _open_file_dialog: size_mb > 500 asks for confirmation
LargeFileMB == 500

FileMegabytes(p) == IF p = ModelB THEN 600 ELSE 1

\* What the user does with a file dialog: picks a file (and confirms or
\* declines when asked about its size), cancels, or the dialog raises.
DialogPaths == {ModelA, ModelB, ModelGone}

DialogOutcomes ==
    [kind : {"picked"}, path : DialogPaths, confirm : BOOLEAN]
        \cup {[kind |-> k, path |-> NoPath, confirm |-> FALSE] : k \in {"cancelled", "raised"}}

\* _open_file_dialog: the path it returns, NoPath for None
open_file_dialog(outcome) ==
    IF outcome.kind = "picked" /\ PathExists(outcome.path)
    THEN IF FileMegabytes(outcome.path) > LargeFileMB /\ ~outcome.confirm
         THEN NoPath
         ELSE outcome.path
    ELSE NoPath

\* Every load appends an entry, a repeated path too.
handle_new_scene_AppendAlways(lf, cs, file_path, source) ==
    IF file_path = NoPath \/ ~PathExists(file_path)
    THEN [loaded_files |-> lf, current_scene |-> cs]
    ELSE [loaded_files |-> Append(lf, [path |-> file_path, source |-> source]),
          current_scene |-> file_path]

\* _handle_new_scene: [loaded_files, current_scene]
handle_new_scene(lf, cs, file_path, source) ==
    IF file_path = NoPath \/ ~PathExists(file_path)
    THEN [loaded_files |-> lf, current_scene |-> cs]
    ELSE [loaded_files |->
              IF \E i \in 1..Len(lf) : lf[i].path = file_path
              THEN [i \in 1..Len(lf) |->
                       IF i = (CHOOSE j \in 1..Len(lf) :
                                  /\ lf[j].path = file_path
                                  /\ \A k \in 1..(j-1) : lf[k].path # file_path)
                       THEN [path |-> file_path, source |-> source] ELSE lf[i]]
              ELSE Append(lf, [path |-> file_path, source |-> source]),
          current_scene |-> file_path]

\* source_label = "Browser" if from_browser else "Desktop"
source_label(from_browser) == IF from_browser THEN "Browser" ELSE "Desktop"

\* One call of _handle_new_scene(file_path, from_browser) on the UI thread.
HandleNewScene(file_path, from_browser) ==
    /\ LET r == handle_new_scene(loaded_files, current_scene, file_path,
                                 source_label(from_browser))
       IN  /\ loaded_files' = r.loaded_files
           /\ current_scene' = r.current_scene
    /\ last_call' = CallRecord("handle_new_scene", file_path, TRUE, FALSE, FALSE, 0)
    /\ UNCHANGED <<registryVars, serverVars, threadVars, httpVars, file_selection_queue,
                   file_selection_pending, selection_requests, external_update_queue,
                   scheduled_polls, dialog_stack, serviced>>

\* while not self._external_update_queue.empty(): ... _handle_new_scene(...)
RECURSIVE DrainExternal(_, _, _)
DrainExternal(q, lf, cs) ==
    IF q = <<>> THEN [loaded_files |-> lf, current_scene |-> cs]
    ELSE LET r == handle_new_scene(lf, cs, Head(q), "Browser")
         IN  DrainExternal(Tail(q), r.loaded_files, r.current_scene)

ApplyExternalUpdates ==
    LET r == DrainExternal(external_update_queue, loaded_files, current_scene)
    IN  /\ external_update_queue' = <<>>
        /\ loaded_files' = r.loaded_files
        /\ current_scene' = r.current_scene

\* queue.Queue.get_nowait, taken from the wrong end
QueueGetNewest(q) == [item |-> q[Len(q)], rest |-> SubSeq(q, 1, Len(q) - 1)]

\* queue.Queue.get_nowait: the oldest item and the queue without it
QueueGet(q) == [item |-> Head(q), rest |-> Tail(q)]

\* self.after(100, self._poll_file_selection_queue) is the last statement of
\* the poll: nothing is scheduled while the dialog is open.
ReschedulesBeforeDialog == FALSE

\* request_file_selection up to the wait: the request is queued
RequestFileSelection(t) ==
    /\ handler[t].pc = "idle"
    /\ Len(selection_requests) < MaxRequests
    /\ selection_requests' = Append(selection_requests, [event |-> FALSE, file_path |-> NoPath])
    /\ file_selection_queue' = Append(file_selection_queue, Len(selection_requests) + 1)
    /\ file_selection_pending' = TRUE
    /\ handler' = [handler EXCEPT ![t] = [pc |-> "waiting", file_path |-> NoPath,
                                          req |-> Len(selection_requests) + 1, waited |-> 0]]
    /\ UNCHANGED <<registryVars, serverVars, last_call, ui, httpVars, external_update_queue,
                   loaded_files, current_scene, scheduled_polls, dialog_stack, serviced>>

Waiting(t) == handler[t].pc = "waiting"

\* The clock: time passes for every thread inside result_event.wait.
TimePasses ==
    /\ \E t \in Handlers : Waiting(t) /\ handler[t].waited < SelectionTimeout
    /\ handler' = [t \in Handlers |->
                      IF Waiting(t)
                      THEN [handler[t] EXCEPT !.waited =
                               IF @ + TimeStep > SelectionTimeout THEN SelectionTimeout
                               ELSE @ + TimeStep]
                      ELSE handler[t]]
    /\ UNCHANGED <<registryVars, serverVars, last_call, ui, httpVars, appVars>>

\* The wait has lasted its timeout.
TimeoutElapsed_Never(t) == FALSE

TimeoutElapsed(t) == handler[t].waited >= SelectionTimeout

\* result_event.wait returned True: return result_container['file_path']
ReturnSelected(t) ==
    /\ Waiting(t)
    /\ selection_requests[handler[t].req].event
    /\ handler' = [handler EXCEPT ![t] = [@ EXCEPT !.pc = "returned",
                      !.file_path = selection_requests[handler[t].req].file_path]]
    /\ UNCHANGED <<registryVars, serverVars, last_call, ui, httpVars, appVars>>

\* result_event.wait returned False: return None
ReturnTimeout(t) ==
    /\ Waiting(t)
    /\ ~selection_requests[handler[t].req].event
    /\ TimeoutElapsed(t)
    /\ handler' = [handler EXCEPT ![t] = [@ EXCEPT !.pc = "returned", !.file_path = NoPath]]
    /\ UNCHANGED <<registryVars, serverVars, last_call, ui, httpVars, appVars>>

Return(t) == ReturnSelected(t) \/ ReturnTimeout(t)

\* The caller is done with the result.
CallerDone(t) ==
    /\ handler[t].pc = "returned"
    /\ handler' = [handler EXCEPT ![t] = HandlerIdle]
    /\ UNCHANGED <<registryVars, serverVars, last_call, ui, httpVars, appVars>>

\* _poll_file_selection_queue finds a request: it takes it off the queue and
\* opens the file dialog, which blocks this run of the poll.
PollDequeue ==
    /\ scheduled_polls > 0
    /\ file_selection_queue # <<>>
    /\ LET g == QueueGet(file_selection_queue)
       IN  /\ file_selection_queue' = g.rest
           /\ dialog_stack' = Append(dialog_stack, g.item)
           /\ serviced' = Append(serviced, g.item)
    /\ scheduled_polls' = scheduled_polls - 1 + (IF ReschedulesBeforeDialog THEN 1 ELSE 0)
    /\ UNCHANGED <<registryVars, serverVars, last_call, threadVars, httpVars,
                   file_selection_pending, selection_requests, external_update_queue,
                   loaded_files, current_scene>>

\* The dialog returns and the poll runs to its end: the result is stored and
\* the event set, the external updates are applied, the next poll is
\* scheduled.  A dialog that raises skips to the scheduling.
DialogReturns ==
    /\ dialog_stack # <<>>
    /\ \E outcome \in DialogOutcomes :
          LET r == dialog_stack[Len(dialog_stack)]
          IN  IF outcome.kind = "raised"
              THEN UNCHANGED <<selection_requests, external_update_queue, loaded_files,
                               current_scene>>
              ELSE /\ selection_requests' =
                          [selection_requests EXCEPT ![r] =
                              [event |-> TRUE, file_path |-> open_file_dialog(outcome)]]
                   /\ ApplyExternalUpdates
    /\ file_selection_pending' = FALSE
    /\ dialog_stack' = SubSeq(dialog_stack, 1, Len(dialog_stack) - 1)
    /\ scheduled_polls' = scheduled_polls + (IF ReschedulesBeforeDialog THEN 0 ELSE 1)
    /\ UNCHANGED <<registryVars, serverVars, last_call, threadVars, httpVars,
                   file_selection_queue, serviced>>

\* _poll_file_selection_queue finds no request: it applies the external
\* updates and schedules the next poll.
PollEmpty ==
    /\ scheduled_polls > 0
    /\ file_selection_queue = <<>>
    /\ ApplyExternalUpdates
    /\ UNCHANGED <<registryVars, serverVars, last_call, threadVars, httpVars,
                   file_selection_queue, file_selection_pending, selection_requests,
                   scheduled_polls, dialog_stack, serviced>>

\* A run that ends in the except clause schedules no further run.
ReschedulesAfterError_Never == FALSE

\* self.after(100, self._poll_file_selection_queue) stands after the try
\* statement: a run that ends in the except clause schedules the next run
\* too.
ReschedulesAfterError == TRUE

\* logger.error("Error in file selection polling: ...") in the except clause.
PollingError == CallRecord("poll_file_selection_queue", NoPath, FALSE, FALSE, FALSE, 0)

\* The loop over the external updates with _handle_new_scene raising on the
\* k-th: the updates before it are applied, the k-th is off the queue and
\* has taken effect or not, the rest stays on the queue.
ApplyExternalUpdatesRaising ==
    \E k \in 1..Len(external_update_queue), applied \in BOOLEAN :
        LET before == DrainExternal(SubSeq(external_update_queue, 1, k - 1),
                                    loaded_files, current_scene)
            r == IF applied
                 THEN handle_new_scene(before.loaded_files, before.current_scene,
                                       external_update_queue[k], "Browser")
                 ELSE before
        IN  /\ external_update_queue' =
                   SubSeq(external_update_queue, k + 1, Len(external_update_queue))
            /\ loaded_files' = r.loaded_files
            /\ current_scene' = r.current_scene

\* As DialogReturns, with an external update raising after the result is
\* stored and the event set.
DialogReturnsRaises ==
    /\ dialog_stack # <<>>
    /\ external_update_queue # <<>>
    /\ \E outcome \in DialogOutcomes :
          /\ outcome.kind # "raised"
          /\ selection_requests' =
                 [selection_requests EXCEPT ![dialog_stack[Len(dialog_stack)]] =
                     [event |-> TRUE, file_path |-> open_file_dialog(outcome)]]
    /\ ApplyExternalUpdatesRaising
    /\ file_selection_pending' = FALSE
    /\ dialog_stack' = SubSeq(dialog_stack, 1, Len(dialog_stack) - 1)
    /\ scheduled_polls' = scheduled_polls + (IF ReschedulesAfterError THEN 1 ELSE 0)
    /\ last_call' = PollingError
    /\ UNCHANGED <<registryVars, serverVars, threadVars, httpVars,
                   file_selection_queue, serviced>>

\* As PollEmpty, with an external update raising.
PollEmptyRaises ==
    /\ scheduled_polls > 0
    /\ file_selection_queue = <<>>
    /\ external_update_queue # <<>>
    /\ ApplyExternalUpdatesRaising
    /\ file_selection_pending' = FALSE
    /\ scheduled_polls' = scheduled_polls - 1 + (IF ReschedulesAfterError THEN 1 ELSE 0)
    /\ last_call' = PollingError
    /\ UNCHANGED <<registryVars, serverVars, threadVars, httpVars,
                   file_selection_queue, selection_requests, dialog_stack, serviced>>

\* ------------------------------------------- ViewerHandler.do_POST

\* The application object that set_app_reference stores.
TheApp == "GLTFViewerApp"

\* A response to a POST: every one is sent with Content-type
\* application/json and Access-Control-Allow-Origin: *.  lines counts the
\* status lines written for the request.
PostResponse(status, success, error, file_url, file_size, lines) ==
    [status |-> status, ctype |-> "application/json", cors |-> TRUE,
     success |-> success, error |-> error, fileUrl |-> file_url,
     fileSize |-> file_size, lines |-> lines]

NoPostResponse ==
    [status |-> 0, ctype |-> None, cors |-> FALSE, success |-> FALSE, error |-> None,
     fileUrl |-> <<>>, fileSize |-> 0, lines |-> 0]

NoPostRequest == [path |-> None, content_length |-> None, data |-> None, app_ref |-> None]

NoPost == [request |-> NoPostRequest, response |-> NoPostResponse]

\* A POST /api/add-model as the handler sees it: the Content-Length header
\* (absent, an integer above zero, or not a number), what the body decodes
\* to (a JSON object, which text that is not JSON also counts as, or JSON
\* that is no object), and the app_ref the handler was constructed with.
AddModelRequests ==
    [path : {"api/add-model"}, content_length : {"absent", "integer", "malformed"},
     data : {"object", "not_object"}, app_ref : {None, TheApp}]

\* The handler falls through to the branch "App reference not available".
AppUnavailable_Never(app) == FALSE

\* if app and hasattr(app, 'request_file_selection'): ... else:
AppUnavailable(app) == app = None

\* _handle_add_model up to the call of request_file_selection: the response
\* it sends, or NoPostResponse when it goes on to ask for a file.
\* int() of a malformed Content-Length raises, and so does request_data.get
\* on JSON that is no object; the outer handler answers 500 with the text of
\* the exception.
add_model_entry(req) ==
    IF req.content_length = "malformed"
    THEN PostResponse(500, FALSE, "ValueError", <<>>, 0, 1)
    ELSE IF AppUnavailable(req.app_ref)
    THEN PostResponse(500, FALSE, "Desktop app not available", <<>>, 0, 1)
    ELSE IF req.content_length = "integer" /\ req.data = "not_object"
    THEN PostResponse(500, FALSE, "AttributeError", <<>>, 0, 1)
    ELSE NoPostResponse

\* The handler of thread t has a request in hand that it has not answered.
PostPending(t) ==
    post[t].request # NoPostRequest /\ post[t].response = NoPostResponse

Respond(t, resp) == post' = [post EXCEPT ![t].response = resp]

\* The server hands thread t a POST /api/add-model: the handler object is
\* constructed with app_ref = self.app_ref as it is now.
PostReceive(t, req) ==
    /\ Listening(Srv) /\ server_thread = "serving"
    /\ handler[t].pc = "idle" /\ ~PostPending(t)
    /\ Len(selection_requests)
          + Cardinality({u \in Handlers : PostPending(u) /\ handler[u].pc = "idle"})
          < MaxRequests
    /\ req.app_ref = app_ref
    /\ post' = [post EXCEPT ![t] = [request |-> req, response |-> NoPostResponse]]
    /\ UNCHANGED <<registryVars, serverVars, last_call, threadVars, appVars, file_cache,
                   http_request, http_response, app_ref, toolkit_calls,
                   export_folder, export_files>>

\* _handle_add_model answers without asking for a file.
PostReject(t) ==
    /\ PostPending(t) /\ handler[t].pc = "idle"
    /\ add_model_entry(post[t].request) # NoPostResponse
    /\ Respond(t, add_model_entry(post[t].request))
    /\ UNCHANGED <<registryVars, serverVars, last_call, threadVars, appVars, file_cache,
                   http_request, http_response, app_ref, toolkit_calls,
                   export_folder, export_files>>

\* file_path = app.request_file_selection(...), up to its wait
PostRequestDialog(t) ==
    /\ PostPending(t)
    /\ add_model_entry(post[t].request) = NoPostResponse
    /\ RequestFileSelection(t)

\* The test taken to succeed whatever request_file_selection returned.
FileChosen_Always(file_path) == TRUE

\* if file_path and os.path.exists(file_path):
FileChosen(file_path) == file_path # NoPath /\ PathExists(file_path)

\* else: 'No file selected' if not file_path else 'File not found', sent 200
PostNoFile(t) ==
    /\ PostPending(t) /\ handler[t].pc = "returned"
    /\ ~FileChosen(handler[t].file_path)
    /\ Respond(t, PostResponse(200, FALSE,
                               IF handler[t].file_path = NoPath
                               THEN "No file selected" ELSE "File not found",
                               <<>>, 0, 1))
    /\ handler' = [handler EXCEPT ![t] = HandlerIdle]
    /\ UNCHANGED <<registryVars, serverVars, last_call, ui, appVars, file_cache,
                   http_request, http_response, app_ref, toolkit_calls,
                   export_folder, export_files>>

\* self.canvas_ref.add_model_file(file_path), run to its end
PostRegister(t) ==
    /\ PostPending(t) /\ handler[t].pc = "returned"
    /\ FileChosen(handler[t].file_path)
    /\ LET r == add_model_file(model_files, current_file, handler[t].file_path)
       IN  /\ model_files' = r.model_files
           /\ current_file' = r.current_file
    /\ last_call' = CallRecord("add_model_file", handler[t].file_path, TRUE, FALSE, FALSE, 0)
    /\ SetHandler(t, "registered", handler[t].file_path)
    /\ UNCHANGED <<serverVars, ui, appVars, httpVars>>

\* The notification lost: nothing is put on the queue.
notify_browser_file_loaded_Dropped(q, file_path) == q

\* notify_browser_file_loaded: the path is put on the external-update queue
notify_browser_file_loaded(q, file_path) ==
    IF file_path # NoPath /\ PathExists(file_path) THEN Append(q, file_path) ELSE q

PostNotify(t) ==
    /\ handler[t].pc = "registered"
    /\ external_update_queue' =
          notify_browser_file_loaded(external_update_queue, handler[t].file_path)
    /\ SetHandler(t, "notified", handler[t].file_path)
    /\ UNCHANGED <<registryVars, serverVars, last_call, ui, httpVars, file_selection_queue,
                   file_selection_pending, selection_requests, loaded_files,
                   current_scene, scheduled_polls, dialog_stack, serviced>>

\* The success response: fileUrl /model/<basename>, fileName, fileSize
PostRespond(t) ==
    /\ handler[t].pc = "notified"
    /\ Respond(t, PostResponse(200, TRUE, None,
                               <<"/", "model", "/">> \o Basename(handler[t].file_path),
                               FileSize(handler[t].file_path), 1))
    /\ handler' = [handler EXCEPT ![t] = HandlerIdle]
    /\ UNCHANGED <<registryVars, serverVars, last_call, ui, appVars, file_cache,
                   http_request, http_response, app_ref, toolkit_calls,
                   export_folder, export_files>>

\* ------------------------------- ViewerHandler._handle_capture_image

\* The folder the user picks for the exported images.
ExportDir == << <<"export">> >>

\* WebViewCanvas.set_export_folder: the new self.export_folder
set_export_folder(old, folder_path, exists) ==
    IF folder_path # NoPath /\ exists THEN folder_path ELSE old

\* _on_select_export_folder on the UI thread: the directory dialog returns a
\* folder or nothing; the folder is passed on when it exists.
SelectExportFolder ==
    /\ ui.pc = "idle" /\ app_ref = TheApp
    /\ \E folder_path \in {NoPath, ExportDir}, exists \in BOOLEAN :
          /\ export_folder' = set_export_folder(export_folder, folder_path, exists)
    /\ UNCHANGED <<registryVars, serverVars, last_call, threadVars, appVars, file_cache,
                   http_request, http_response, app_ref, post, toolkit_calls, export_files>>

\* A part name is a string of these pieces: two words that are keywords up
\* to case, the underscore (a word character), the blank, and the slash
\* (neither is a word character; the slash is not allowed in a folder name).
PartTokens == {"front", "Rear", "_", " ", "/"}

PartNames == SeqsUpTo(PartTokens, MaxPartLen)

\* No file name in the request (the key is absent or its value is empty).
NoName == <<>>

\* The file names a request carries.
FileNames ==
    {NoName, <<"shot", ".png">>, <<"..", "/", "shot", ".png">>, <<"/", "shot", ".png">>}

\* A POST /api/capture-image as the handler sees it: the Content-Length
\* header, what the body decodes to (an object with image data that decodes,
\* text that is not JSON, JSON that is no object, an object without image
\* data, image data that is not base64), partName and filename of a body
\* that carries an image, and the handler's app_ref.
CaptureRequests ==
    [path : {"api/capture-image"}, content_length : {"absent", "malformed"},
     data : {"image"}, part_name : {<<>>}, filename : {NoName}, app_ref : {None, TheApp}]
    \cup
    [path : {"api/capture-image"}, content_length : {"integer"},
     data : {"invalid_json", "not_object", "no_image_data", "bad_base64"},
     part_name : {<<>>}, filename : {NoName}, app_ref : {None, TheApp}]
    \cup
    [path : {"api/capture-image"}, content_length : {"integer"}, data : {"image"},
     part_name : PartNames, filename : FileNames, app_ref : {None, TheApp}]

\* A response of the capture handler, sent like every POST response; lines
\* counts the status lines written for the request.
CaptureResponse(status, success, error, file_path, file_name, lines) ==
    [status |-> status, ctype |-> "application/json", cors |-> TRUE,
     success |-> success, error |-> error, filePath |-> file_path,
     fileName |-> file_name, lines |-> lines]

CaptureError(status, error, lines) ==
    CaptureResponse(status, FALSE, error, NoPath, NoName, lines)

\* The body the browser reads is the JSON object of the response: it is not
\* when a second status line and its headers come before the object.
BodyIsJson(resp) == resp.lines = 1

\* The characters replaced by "_" in a folder name.
InvalidChars == {"/", "\\", ":", "*", "?", "\"", "<", ">", "|"}

\* str.strip()
RECURSIVE StripLeft(_)
StripLeft(s) == IF s # <<>> /\ Head(s) = " " THEN StripLeft(Tail(s)) ELSE s

RECURSIVE StripRight(_)
StripRight(s) ==
    IF s # <<>> /\ s[Len(s)] = " " THEN StripRight(SubSeq(s, 1, Len(s) - 1)) ELSE s

\* safe_part_name: the chain of replace calls, strip(), and 'unnamed_part'
\* when nothing is left
safe_part_name(part_name) ==
    LET replaced == [i \in 1..Len(part_name) |->
                        IF part_name[i] \in InvalidChars THEN "_" ELSE part_name[i]]
        stripped == StripRight(StripLeft(replaced))
    IN  IF stripped = <<>> THEN <<"unnamed_part">> ELSE stripped

keywords == <<"Front", "Rear", "Back", "Left", "Right", "Top", "Bottom",
              "Upper", "Lower", "Inner", "Outer", "Side", "Center", "Middle">>

\* str.lower() of a piece
Lower(tok) ==
    CASE tok = "Front" -> "front" [] tok = "Rear" -> "rear" [] tok = "Back" -> "back"
      [] tok = "Left" -> "left" [] tok = "Right" -> "right" [] tok = "Top" -> "top"
      [] tok = "Bottom" -> "bottom" [] tok = "Upper" -> "upper" [] tok = "Lower" -> "lower"
      [] tok = "Inner" -> "inner" [] tok = "Outer" -> "outer" [] tok = "Side" -> "side"
      [] tok = "Center" -> "center" [] tok = "Middle" -> "middle"
      [] OTHER -> tok

\* \w of the regular expressions
IsWordChar(tok) == tok \notin {" ", "/"}

\* keyword.lower() in part_name.lower()
OccursLower(keyword, part_name) ==
    \E i \in 1..Len(part_name) : Lower(part_name[i]) = Lower(keyword)

\* Any occurrence counts, a part of a longer word too.
SearchWholeWord_AnyOccurrence(keyword, part_name) == OccursLower(keyword, part_name)

\* re.search(r'\b' + re.escape(keyword) + r'\b', part_name, re.IGNORECASE)
SearchWholeWord(keyword, part_name) ==
    \E i \in 1..Len(part_name) :
        /\ Lower(part_name[i]) = Lower(keyword)
        /\ i = 1 \/ ~IsWordChar(part_name[i - 1])
        /\ i = Len(part_name) \/ ~IsWordChar(part_name[i + 1])

\* for keyword in keywords: ... short_name = keyword; break
RECURSIVE ShortNameFrom(_, _, _)
ShortNameFrom(k, part_name, default) ==
    IF k > Len(keywords) THEN default
    ELSE IF OccursLower(keywords[k], part_name) /\ SearchWholeWord(keywords[k], part_name)
    THEN <<keywords[k]>>
    ELSE ShortNameFrom(k + 1, part_name, default)

\* The name given to a capture that names neither part nor file.
TimestampName == <<"model-capture_", "timestamp", ".png">>

\* os.path.join(a, b): b under a, or b alone when b is absolute.
os_path_join(a, b) == JoinPath(a, b)

\* filename and file_path as the handler works them out: [file_name, file_path]
capture_target(req, folder) ==
    IF req.part_name # <<>>
    THEN LET part_folder == os_path_join(folder, safe_part_name(req.part_name))
             name == IF req.filename # NoName THEN req.filename
                     ELSE ShortNameFrom(1, req.part_name, safe_part_name(req.part_name))
                              \o <<".png">>
         IN  [file_name |-> name, file_path |-> os_path_join(part_folder, name)]
    ELSE LET name == IF req.filename # NoName THEN req.filename ELSE TimestampName
         IN  [file_name |-> name, file_path |-> os_path_join(folder, name)]

\* What the file system does during one capture: whether the export folder
\* is still there, whether the part folder can be made, and whether the
\* image file opens and takes the bytes.
CaptureEnvironments ==
    [folder_exists : BOOLEAN, makedirs_ok : BOOLEAN,
     write : {"ok", "open_fails", "write_fails"}]

\* _handle_capture_image: [response, written], the response it sends and
\* the files it leaves.  json is a local name of the function, bound by the
\* import that follows the Content-Length test: on an empty body the 400 is
\* sent through end_headers, json.dumps then raises UnboundLocalError and
\* the outer handler writes a second response, status line and all, where
\* the body of the first belongs.
capture_image(req, folder, env) ==
    LET fail(status, error, lines) ==
            [response |-> CaptureError(status, error, lines), written |-> {}]
        target == capture_target(req, folder)
    IN  IF req.content_length = "malformed" THEN fail(500, "ValueError", 1)
        ELSE IF req.content_length = "absent" THEN fail(400, "HTTP/1.0 500", 2)
        ELSE IF req.data = "invalid_json" THEN fail(400, "Invalid JSON", 1)
        ELSE IF req.data = "not_object" THEN fail(500, "AttributeError", 1)
        ELSE IF req.data = "no_image_data" THEN fail(400, "No image data in request", 1)
        ELSE IF folder = NoPath \/ ~env.folder_exists
        THEN fail(400, "Export folder not set or does not exist", 1)
        ELSE IF req.data = "bad_base64" THEN fail(400, "Failed to decode image", 1)
        ELSE IF req.part_name # <<>> /\ ~env.makedirs_ok
        THEN fail(500, "Failed to create part folder", 1)
        ELSE IF env.write = "open_fails" THEN fail(500, "Failed to save image", 1)
        ELSE IF env.write = "write_fails"
        THEN [response |-> CaptureError(500, "Failed to save image", 1),
              written |-> {[path |-> target.file_path, content |-> "partial"]}]
        ELSE [response |-> CaptureResponse(200, TRUE, None, target.file_path,
                                           target.file_name, 1),
              written |-> {[path |-> target.file_path, content |-> "image"]}]

\* if self.app_ref and hasattr(self.app_ref, 'set_status'), after the
\* image is saved and the response sent
NotifiesStatus(req, resp) == resp.success /\ req.app_ref # None

\* GLTFViewerApp.set_status, run by the thread that calls it: the toolkit
\* operations it performs.
set_status == {"status_label.configure"}

\* open(file_path, 'wb') replaces the file of that path.
WriteFiles(files, written) ==
    {f \in files : \A w \in written : w.path # f.path} \cup written

\* A handler thread serves POST /api/capture-image from its construction to
\* its return.
PostCaptureImage(t, req) ==
    /\ Listening(Srv) /\ server_thread = "serving"
    /\ handler[t].pc = "idle" /\ ~PostPending(t)
    /\ req \in CaptureRequests
    /\ req.app_ref = app_ref
    /\ \E env \in CaptureEnvironments :
          LET r == capture_image(req, export_folder, env)
          IN  /\ post' = [post EXCEPT ![t] = [request |-> req, response |-> r.response]]
              /\ export_files' = WriteFiles(export_files, r.written)
              /\ toolkit_calls' = IF NotifiesStatus(req, r.response)
                                  THEN toolkit_calls \cup set_status
                                  ELSE toolkit_calls
    /\ UNCHANGED <<registryVars, serverVars, last_call, threadVars, appVars, file_cache,
                   http_request, http_response, app_ref, export_folder>>

\* GLTFViewerApp.__init__ after its widgets: set_app_reference(self) and the
\* first poll.
FinishAppInit ==
    /\ app_ref = None
    /\ app_ref' = TheApp
    /\ scheduled_polls' = scheduled_polls + 1
    /\ UNCHANGED <<registryVars, serverVars, last_call, threadVars, file_cache,
                   http_request, http_response, post, toolkit_calls,
                   export_folder, export_files,
                   file_selection_queue, file_selection_pending, selection_requests,
                   external_update_queue, loaded_files, current_scene, dialog_stack,
                   serviced>>

\* _on_clear on the UI thread: with a scene or a loaded file it clears the
\* viewer (WebViewCanvas.clear), the scene and the list; without, this
\* viewer having no webview window, it only reports "Nothing to clear".
OnClear ==
    /\ ui.pc = "idle" /\ dialog_stack = <<>>
    /\ app_ref = TheApp
    /\ IF current_scene # NoPath \/ loaded_files # <<>>
       THEN /\ current_file' = NoPath
            /\ current_scene' = NoPath
            /\ loaded_files' = <<>>
       ELSE UNCHANGED <<current_file, current_scene, loaded_files>>
    /\ last_call' = CallRecord("on_clear", NoPath, TRUE, FALSE, FALSE, 0)
    /\ UNCHANGED <<model_files, serverVars, threadVars, httpVars, file_selection_queue,
                   file_selection_pending, selection_requests, external_update_queue,
                   scheduled_polls, dialog_stack, serviced>>

\* The report makes the session inactive.
on_model_error_DropsScene(scene, files) == [current_scene |-> NoPath, loaded_files |-> files]

\* _on_model_error: an error box and a status line; it assigns neither
\* self.current_scene nor self.loaded_files.  [current_scene, loaded_files]
on_model_error(scene, files) == [current_scene |-> scene, loaded_files |-> files]

\* The renderer reports a load error: on_model_error_callback on the UI
\* thread calls self.on_model_error, which is _on_model_error.
OnModelError ==
    /\ ui.pc = "idle" /\ dialog_stack = <<>>
    /\ app_ref = TheApp
    /\ LET r == on_model_error(current_scene, loaded_files)
       IN  /\ current_scene' = r.current_scene
           /\ loaded_files' = r.loaded_files
    /\ last_call' = CallRecord("on_model_error_callback", NoPath, TRUE, FALSE, FALSE, 0)
    /\ UNCHANGED <<registryVars, serverVars, threadVars, httpVars, file_selection_queue,
                   file_selection_pending, selection_requests, external_update_queue,
                   scheduled_polls, dialog_stack, serviced>>

\* --------------------------------------------------- specifications

vars == <<current_file, model_files, http_server, server_thread, server_port,
          server_started, last_call, ui, handler, file_selection_queue,
          file_selection_pending, selection_requests, external_update_queue,
          loaded_files, current_scene, scheduled_polls, dialog_stack, serviced,
          file_cache, http_request, http_response, app_ref, post, toolkit_calls,
          export_folder, export_files>>

NoCall == CallRecord(None, NoPath, FALSE, FALSE, FALSE, 0)

\* No handler thread has a POST in hand and none has touched the toolkit;
\* app is what set_app_reference has stored (None before it is called).
PostIdle(app) ==
    /\ app_ref = app
    /\ post = [t \in Handlers |-> NoPost]
    /\ toolkit_calls = {}
    /\ export_folder = NoPath
    /\ export_files = {}

\* The fields as __init__ sets them, before it starts the server.
Fresh == [http_server |-> NoServer, server_thread |-> None,
          server_port |-> FirstPort, server_started |-> FALSE]

\* GLTFViewerApp.__init__: the queues are empty, no thread is inside a call,
\* and the first poll is scheduled.
AppIdle ==
    /\ ui = UiIdle
    /\ handler = [t \in Handlers |-> HandlerIdle]
    /\ file_selection_queue = <<>>
    /\ file_selection_pending = FALSE
    /\ selection_requests = <<>>
    /\ external_update_queue = <<>>
    /\ loaded_files = <<>>
    /\ current_scene = NoPath
    /\ scheduled_polls = 1
    /\ dialog_stack = <<>>
    /\ serviced = <<>>

\* The state after WebViewCanvas.__init__, which starts the server under
\* whatever ports the other processes hold then.
Init ==
    /\ current_file = NoPath
    /\ model_files = <<>>
    /\ \E env \in Environments(Fresh) :
          LET s == start_local_server(Fresh, env.occupied)
          IN  /\ http_server = s.http_server
              /\ server_thread = s.server_thread
              /\ server_port = s.server_port
              /\ server_started = s.server_started
    /\ last_call = NoCall
    /\ AppIdle
    /\ file_cache = {}
    /\ http_request = NoRequest
    /\ http_response = NoResponse
    /\ PostIdle(None)

\* A browser sends a request for a model by name, or for the entry page.
ModelRequests ==
    {<<"/", "model", "/">> \o Basename(f) : f \in ModelPaths}
        \cup {<<"/", "model", "/", "missing.glb">>, <<"/", "index.html">>, <<"/">>}

ReceiveRequest ==
    /\ Listening(Srv) /\ server_thread = "serving"
    /\ http_request' \in [path : ModelRequests, command : Commands]
    /\ http_response' = NoResponse
    /\ UNCHANGED <<registryVars, serverVars, last_call, file_cache, postVars, threadVars,
                   appVars>>

AnswerRequest ==
    HandleGet /\ UNCHANGED <<registryVars, serverVars, last_call, threadVars, appVars>>

\* The operations of WebViewCanvas called one after the other, and the
\* browser's GET requests between them.
Next ==
    \/ \E f \in ModelPaths : AddModelFile(f)
    \/ \E f \in ModelPaths : LoadGltf(f)
    \/ Clear
    \/ ReceiveRequest
    \/ AnswerRequest

Spec == Init /\ [][Next]_vars

\* The server's life cycle: starts, stops and the calls that start it.
NextServer ==
    \/ StartLocalServer
    \/ StopServer
    \/ OpenBrowserViewer
    \/ LoadGltf(ModelA)

SpecServer == Init /\ [][NextServer]_vars

\* Handler threads inside add_model_file while the UI thread is inside
\* load_gltf or calls clear.
RacePaths == {ModelA, ModelB}

NextThreads ==
    \/ \E t \in Handlers, f \in RacePaths \cup {ModelGone} : AddBegin(t, f)
    \/ \E t \in Handlers : AddTest(t)
    \/ \E t \in Handlers : AddAppend(t)
    \/ \E t \in Handlers : AddSetCurrent(t)
    \/ \E f \in {ModelA, ModelGone} : LoadBegin(f)
    \/ LoadTest
    \/ LoadAppend
    \/ LoadServe
    \/ ClearByUi

SpecThreads == Init /\ [][NextThreads]_vars

\* Threads calling request_file_selection, the clock, and the UI tick.
NextDialog ==
    \/ \E t \in Handlers : RequestFileSelection(t)
    \/ TimePasses
    \/ \E t \in Handlers : ReturnSelected(t)
    \/ \E t \in Handlers : ReturnTimeout(t)
    \/ \E t \in Handlers : CallerDone(t)
    \/ PollDequeue
    \/ DialogReturns
    \/ PollEmpty

\* The application with its server running on the first port.
InitRunning ==
    /\ current_file = NoPath
    /\ model_files = <<>>
    /\ SetServerNow(start_local_server(Fresh, {}))
    /\ last_call = NoCall
    /\ AppIdle
    /\ file_cache = {}
    /\ http_request = NoRequest
    /\ http_response = NoResponse
    /\ PostIdle(TheApp)

SpecDialog == InitRunning /\ [][NextDialog]_vars

\* The calling threads and the clock run; the UI thread may be busy or
\* absent for ever.
SpecDialogCallers ==
    /\ InitRunning /\ [][NextDialog]_vars
    /\ WF_vars(TimePasses)
    /\ \A t \in Handlers : WF_vars(Return(t))

\* The UI thread runs too, and the user answers every dialog.
SpecDialogFair ==
    /\ InitRunning /\ [][NextDialog]_vars
    /\ WF_vars(TimePasses)
    /\ \A t \in Handlers : WF_vars(Return(t))
    /\ WF_vars(PollDequeue)
    /\ WF_vars(DialogReturns)

\* A handler thread calls notify_browser_file_loaded(file_path); a path is
\* on the queue at most once at a time.
NotifyBrowserFileLoaded(file_path) ==
    /\ file_path \notin Range(external_update_queue)
    /\ external_update_queue' =
           notify_browser_file_loaded(external_update_queue, file_path)
    /\ UNCHANGED <<registryVars, serverVars, last_call, threadVars, httpVars,
                   file_selection_queue, file_selection_pending, selection_requests,
                   loaded_files, current_scene, scheduled_polls, dialog_stack, serviced>>

\* The files the browser reports as loaded.
ExternalPaths == {ModelA, ModelB}

\* The tick with both of its queues fed by other threads, and with runs
\* that end in an exception. The callers wait for their event.
NextTick ==
    \/ \E t \in Handlers : RequestFileSelection(t)
    \/ \E t \in Handlers : ReturnSelected(t)
    \/ \E t \in Handlers : CallerDone(t)
    \/ PollDequeue
    \/ DialogReturns
    \/ PollEmpty
    \/ \E f \in ExternalPaths : NotifyBrowserFileLoaded(f)
    \/ DialogReturnsRaises
    \/ PollEmptyRaises

SpecTick == InitRunning /\ [][NextTick]_vars

\* The event loop runs every scheduled poll and every dialog is closed in
\* the end.
SpecTickFair ==
    /\ InitRunning /\ [][NextTick]_vars
    /\ WF_vars(PollDequeue)
    /\ WF_vars(DialogReturns \/ DialogReturnsRaises)
    /\ WF_vars(PollEmpty \/ PollEmptyRaises)

\* ------------------------------------------ POST /api/add-model

\* GLTFViewerApp.__init__ has constructed the viewer, whose server runs on
\* the first port, and has not yet called set_app_reference nor started the
\* poll.
InitAddModel ==
    /\ current_file = NoPath
    /\ model_files = <<>>
    /\ SetServerNow(start_local_server(Fresh, {}))
    /\ last_call = NoCall
    /\ ui = UiIdle
    /\ handler = [t \in Handlers |-> HandlerIdle]
    /\ file_selection_queue = <<>>
    /\ file_selection_pending = FALSE
    /\ selection_requests = <<>>
    /\ external_update_queue = <<>>
    /\ loaded_files = <<>>
    /\ current_scene = NoPath
    /\ scheduled_polls = 0
    /\ dialog_stack = <<>>
    /\ serviced = <<>>
    /\ file_cache = {}
    /\ http_request = NoRequest
    /\ http_response = NoResponse
    /\ PostIdle(None)

\* Handler threads serving POST /api/add-model, the clock, and the UI thread.
NextAddModel ==
    \/ FinishAppInit
    \/ \E t \in Handlers, req \in AddModelRequests : PostReceive(t, req)
    \/ \E t \in Handlers : PostReject(t)
    \/ \E t \in Handlers : PostRequestDialog(t)
    \/ TimePasses
    \/ \E t \in Handlers : ReturnSelected(t)
    \/ \E t \in Handlers : ReturnTimeout(t)
    \/ \E t \in Handlers : PostNoFile(t)
    \/ \E t \in Handlers : PostRegister(t)
    \/ \E t \in Handlers : PostNotify(t)
    \/ \E t \in Handlers : PostRespond(t)
    \/ PollDequeue
    \/ DialogReturns
    \/ PollEmpty

SpecAddModel == InitAddModel /\ [][NextAddModel]_vars

\* The UI tick keeps running and the user answers every dialog; the handler
\* threads and the clock run.
SpecAddModelFair ==
    /\ InitAddModel /\ [][NextAddModel]_vars
    /\ WF_vars(PollDequeue \/ PollEmpty)
    /\ WF_vars(DialogReturns)
    /\ WF_vars(TimePasses)
    /\ \A t \in Handlers :
          /\ WF_vars(Return(t))
          /\ WF_vars(PostNoFile(t) \/ PostRegister(t))
          /\ WF_vars(PostNotify(t))
          /\ WF_vars(PostRespond(t))

\* Calls of _handle_new_scene, one after another, with any path and source.
NextScenes ==
    \E file_path \in ModelPaths \cup {NoPath}, from_browser \in BOOLEAN :
        HandleNewScene(file_path, from_browser)

SpecScenes == InitRunning /\ [][NextScenes]_vars

\* POST /api/add-model served while the user may press Clear and the
\* renderer may report a load error.
NextClear ==
    \/ NextAddModel
    \/ OnClear
    \/ OnModelError

SpecClear == InitAddModel /\ [][NextClear]_vars

\* --------------------------- stop_server with handlers in flight

\* A handler thread that has not returned from its request.  The server is
\* a socketserver.ThreadingTCPServer with the library's defaults: its
\* handler threads are not daemon threads and server_close joins them.
InFlight(t) == PostPending(t)

\* The UI thread runs one callback at a time.
UiFree == ui.pc = "idle"

\* _on_stop_server on the UI thread, up to the join: stop_server's
\* shutdown() ends serve_forever and server_close() closes the listening
\* socket, then waits for the handler threads.  self.server_started is
\* assigned after server_close has returned.
StopServerBegin ==
    /\ UiFree /\ dialog_stack = <<>>
    /\ app_ref = TheApp
    /\ is_server_running(Srv)
    /\ SetServer([stop_server(Srv) EXCEPT !.server_started = TRUE])
    /\ ui' = [pc |-> "stopping", file_path |-> NoPath]
    /\ UNCHANGED <<registryVars, last_call, handler, appVars, httpVars>>

\* server_close() returns once no handler thread is left; stop_server sets
\* self.server_started = False and returns.
StopServerEnd ==
    /\ ui.pc = "stopping"
    /\ \A t \in Handlers : ~InFlight(t)
    /\ SetServer(stop_server(Srv))
    /\ ui' = UiIdle
    /\ last_call' = CallRecord("stop_server", NoPath, TRUE, FALSE, FALSE, 0)
    /\ UNCHANGED <<registryVars, handler, appVars, httpVars>>

\* Handler threads serving POST /api/add-model and the clock, and the UI
\* thread with its poll and the stop button.
NextStop ==
    \/ UiFree /\ FinishAppInit
    \/ \E t \in Handlers, req \in AddModelRequests : PostReceive(t, req)
    \/ \E t \in Handlers : PostReject(t)
    \/ \E t \in Handlers : PostRequestDialog(t)
    \/ TimePasses
    \/ \E t \in Handlers : ReturnSelected(t)
    \/ \E t \in Handlers : ReturnTimeout(t)
    \/ \E t \in Handlers : PostNoFile(t)
    \/ \E t \in Handlers : PostRegister(t)
    \/ \E t \in Handlers : PostNotify(t)
    \/ \E t \in Handlers : PostRespond(t)
    \/ UiFree /\ PollDequeue
    \/ UiFree /\ DialogReturns
    \/ UiFree /\ PollEmpty
    \/ StopServerBegin
    \/ StopServerEnd

SpecStop == InitAddModel /\ [][NextStop]_vars

\* As InitAddModel, with the POST /api/capture-image the browser sends.
InitCapture ==
    /\ current_file = NoPath
    /\ model_files = <<>>
    /\ SetServerNow(start_local_server(Fresh, {}))
    /\ last_call = NoCall
    /\ ui = UiIdle
    /\ handler = [t \in Handlers |-> HandlerIdle]
    /\ file_selection_queue = <<>>
    /\ file_selection_pending = FALSE
    /\ selection_requests = <<>>
    /\ external_update_queue = <<>>
    /\ loaded_files = <<>>
    /\ current_scene = NoPath
    /\ scheduled_polls = 0
    /\ dialog_stack = <<>>
    /\ serviced = <<>>
    /\ file_cache = {}
    /\ http_request \in CaptureRequests
    /\ http_response = NoResponse
    /\ PostIdle(None)

\* Handler threads serving the POST /api/capture-image, sent any number of
\* times, while the application finishes its construction and the user
\* picks the export folder.
NextCapture ==
    \/ FinishAppInit
    \/ SelectExportFolder
    \/ \E t \in Handlers : PostCaptureImage(t, http_request)

SpecCapture == InitCapture /\ [][NextCapture]_vars

\* ---------------------------------------- the static route on its own

\* Any one request arrives at a viewer whose server runs on its first port.
InitStatic ==
    /\ current_file = NoPath
    /\ model_files = <<>>
    /\ SetServerNow(start_local_server(Fresh, {}))
    /\ last_call = NoCall
    /\ AppIdle
    /\ file_cache = {}
    /\ http_request \in [path : RequestPaths, command : Commands]
    /\ http_response = NoResponse
    /\ PostIdle(TheApp)

NextStatic == AnswerRequest

\* Requests on the static route: a script, plain, with a query and by a
\* longer path, a decoder alias, the entry page as a file of the viewer
\* directory, a path that holds the wrapper's name and ends in .html, a
\* file that is not there, a path out of the viewer directory and a
\* .well-known path.
CacheRequests ==
    {<<"/", "a.js">>, <<"/", "a.js", "?", "secret">>,
     <<"/", "viewer", "/", "..", "/", "a.js">>,
     <<"/", "draco_wasm_wrapper.js">>, <<"/", "index.html", "/">>,
     <<"/", "draco_wasm_wrapper.js", "/", "index.html">>, <<"/", "secret">>,
     <<"/", "..", "/", "secret">>, <<"/", ".well-known", "/", "a.js">>}

\* A browser sends a request on the static route.
ReceiveStatic ==
    /\ Listening(Srv) /\ server_thread = "serving"
    /\ http_request' \in [path : CacheRequests, command : Commands]
    /\ http_response' = NoResponse
    /\ UNCHANGED <<registryVars, serverVars, last_call, file_cache, postVars, threadVars,
                   appVars>>

\* Static requests answered one after the other; the cache is the handler
\* class's, shared by all of them.
NextCache ==
    \/ ReceiveStatic
    \/ AnswerRequest

SpecCache == InitRunning /\ [][NextCache]_vars

SpecStatic == InitStatic /\ [][NextStatic]_vars

\* Any one GET arrives at the handler of one of the other back-ends, with
\* or without a current file.
InitBackends ==
    /\ current_file \in {NoPath, ModelA}
    /\ model_files = <<>>
    /\ SetServerNow(start_local_server(Fresh, {}))
    /\ last_call = NoCall
    /\ AppIdle
    /\ file_cache = {}
    /\ http_request \in [path : RequestPaths, command : {"GET"}, backend : Backends]
    /\ http_response = NoResponse
    /\ PostIdle(TheApp)

NextBackends == AnswerBackend

SpecBackends == InitBackends /\ [][NextBackends]_vars

\* A browser sends a request on any GET route.
ReceiveAny ==
    /\ Listening(Srv) /\ server_thread = "serving"
    /\ http_request' \in [path : ModelRequests \cup CacheRequests, command : Commands]
    /\ http_response' = NoResponse
    /\ UNCHANGED <<registryVars, serverVars, last_call, file_cache, postVars, threadVars,
                   appVars>>

AnswerReset ==
    HandleGetReset /\ UNCHANGED <<registryVars, serverVars, last_call, threadVars, appVars>>

\* Requests on every GET route, answered whole or cut off by the client,
\* between registrations of files.
NextReset ==
    \/ \E f \in ModelPaths : AddModelFile(f)
    \/ ReceiveAny
    \/ AnswerRequest
    \/ AnswerReset

SpecReset == InitRunning /\ [][NextReset]_vars

\* The location a request path names under the viewer directory.
RequestedLocation(raw) ==
    Resolve(JoinPath(viewer_dir, ReplaceBackslash(Lstrip(ParsePath(raw)))))

OnStaticRoute(raw) == ~IsModelRoute(ParsePath(raw)) /\ ~IsIndexRoute(ParsePath(raw))

OutsideFiles == {f \in DiskFiles : ~IsPrefix(viewer_dir, f)}

\* C1: a GET on the static route whose decoded, normalized path resolves
\* outside the viewer directory is answered 404 with no body, and no static
\* response ever carries the bytes of a file outside the viewer directory.
C1_TraversalRejected ==
    (http_response # NoResponse /\ OnStaticRoute(http_request.path)) =>
        /\ ~IsPrefix(viewer_dir, RequestedLocation(http_request.path)) =>
              (http_response.status = 404 /\ http_response.body = None)
        /\ \A f \in OutsideFiles : http_response.body # FileBytes(f)

\* A request for "../secret", an existing file outside the viewer directory,
\* has been answered.
C1_Witness ==
    /\ http_request.command = "GET"
    /\ ParsePath(http_request.path) = <<"..", "/", "secret">>
    /\ RequestedLocation(http_request.path) = SecretFile
    /\ http_response.status = 404


\* C26: decoder aliases are substituted only on a miss: whenever the file a
\* static request names exists inside the viewer directory, that file itself
\* is served, for every decoder file name, draco_wasm_wrapper.js included.
C26_AliasOnlyOnMiss ==
    (/\ http_response # NoResponse /\ http_request.command = "GET"
     /\ OnStaticRoute(http_request.path)
     /\ ~IsWellKnown(ParsePath(http_request.path))
     /\ IsPrefix(viewer_dir, RequestedLocation(http_request.path))
     /\ IsFile(RequestedLocation(http_request.path)))
    => http_response.body = FileBytes(RequestedLocation(http_request.path))

\* normalized_path and file_path of a static request, as the handler has
\* them when it decides on the cache.
NormalizedOf(raw) == ReplaceBackslash(Lstrip(ParsePath(raw)))

ServedFile(raw) == AliasedPath(NormalizedOf(raw), RequestedLocation(raw))

\* The request asks for markup, by its path or by the file it is given.
MarkupRequest(raw) ==
    EndsWith(NormalizedOf(raw), ".html") \/ PathSuffix(ServedFile(raw)) = ".html"

\* The handler answers the request in this step.
Answered == http_response = NoResponse /\ http_response' # NoResponse

\* C27: the static cache only ever holds files with suffix .js, .css, .wasm
\* or .json, each put in only after that file was read for a response; no
\* answer to a markup (.html) request is stored in the cache or served from
\* it.
C27_CacheHoldsAssetsOnly ==
    /\ [](\A f \in file_cache :
             PathSuffix(f) \in {".js", ".css", ".wasm", ".json"} /\ IsFile(f))
    /\ [][Answered =>
             /\ \A f \in file_cache' \ file_cache :
                    /\ f = ServedFile(http_request.path)
                    /\ http_response'.status = 200
                    /\ http_response'.body = FileBytes(f)
             /\ MarkupRequest(http_request.path) =>
                    /\ file_cache' = file_cache
                    /\ ~CacheHit(NormalizedOf(http_request.path),
                                 ServedFile(http_request.path), file_cache)]_vars

\* The decoder script is in the cache and a request that is given that
\* script, but ends in .html, has been answered.
C27_Witness ==
    /\ DracoGltfJs \in file_cache
    /\ http_request.path = <<"/", "draco_wasm_wrapper.js", "/", "index.html">>
    /\ http_request.command = "GET"
    /\ http_response.status = 200

\* ------------------------------------------- claims on the registry

ModelUrl(f) == <<"/", "model", "/">> \o Basename(f)

\* The response do_GET gives now to GET /model/<basename(f)>.
ModelGetNow(f) == do_GET(ModelUrl(f), "GET", model_files, current_file, file_cache).resp

\* C2: whenever GET /model/<basename(A)> is answered for a registered file
\* A, the answer is 200 with Content-Length the size of A and the bytes of A
\* as its body, whatever else is registered.
C2_RoundTrip ==
    [][(http_response = NoResponse /\ http_response' # NoResponse
            /\ http_request.command = "GET") =>
        \A f \in Range(model_files) :
            http_request.path = ModelUrl(f) =>
                /\ http_response'.status = 200
                /\ http_response'.length = FileSize(f)
                /\ http_response'.body = FileBytes(f)]_vars

Count(mf, f) == Cardinality({i \in 1..Len(mf) : mf[i] = f})

ReAdded == last_call'.op = "add_model_file" /\ last_call'.arg \in Range(model_files)

C6_ClearForgetsFiles ==
    last_call.op = "clear" =>
        /\ model_files = <<>>
        /\ \A f \in ModelPaths : ModelGetNow(f).status = 404

\* ---------------------------------- claims on the server's life cycle

\* C4: a start that finds every probed port occupied leaves the server
\* stopped, and load_gltf and open_browser_viewer then return False after at
\* most ReadyProbes probes.
C4_ExhaustedStaysStopped ==
    (last_call.started /\ last_call.exhausted) =>
        /\ ~server_started
        /\ ~is_server_running(Srv)
        /\ last_call.op \in {"load_gltf", "open_browser_viewer"} =>
              (~last_call.result /\ last_call.probes <= ReadyProbes)

\* C9: server_started becomes True only in a call that bound a fresh
\* listener and launched its serve thread on it, and becomes False only in
\* stop_server.
C9_Lifecycle ==
    [][/\ (~server_started /\ server_started') =>
              (/\ http_server' # http_server
               /\ ~http_server'.closed
               /\ server_thread' = "serving")
       /\ (server_started /\ ~server_started') => last_call'.op = "stop_server"]_vars


\* --------------------------------- claims on the file-selection queue

RequestIds == 1..Len(selection_requests)

\* The requests serviced so far and those still queued are, in this order,
\* the requests in the order they were made; at most one dialog is open.
C3_Safety ==
    /\ serviced \o file_selection_queue = [i \in RequestIds |-> i]
    /\ Len(dialog_stack) <= 1

\* C3: the requests are serviced by the tick in the order they were queued,
\* each once, and two dialogs are never open at once; when the tick runs and
\* the user answers, every queued request is serviced.
C3_FifoOnceOneDialog ==
    /\ []C3_Safety
    /\ \A r \in 1..MaxRequests :
          (r \in RequestIds) ~> (r \in Range(serviced))

\* Two requests were waiting at once and both have been serviced, the
\* second while the first caller still waited.
C3_Witness ==
    /\ serviced = <<1, 2>>
    /\ \A t \in Handlers : handler[t].req \in {1, 2}
    /\ selection_requests[1].event /\ selection_requests[2].event

\* A call that has returned gave the dialog's result, the event being set, or
\* None after the whole timeout.
C10_ReturnValue ==
    \A t \in Handlers :
        handler[t].pc = "returned" =>
            \/ /\ selection_requests[handler[t].req].event
               /\ handler[t].file_path = selection_requests[handler[t].req].file_path
            \/ /\ handler[t].file_path = NoPath
               /\ handler[t].waited >= SelectionTimeout

\* C10: request_file_selection always returns, with the dialog's result when
\* the event was set or with None once the timeout has elapsed, whether or
\* not the UI thread ever runs.
C10_AlwaysReturns ==
    /\ []C10_ReturnValue
    /\ \A t \in Handlers : Waiting(t) ~> (handler[t].pc = "returned")

\* A caller has returned None by timeout while its request was still queued.
C10_Witness ==
    \E t \in Handlers :
        /\ handler[t].pc = "returned" /\ handler[t].file_path = NoPath
        /\ handler[t].waited = SelectionTimeout
        /\ handler[t].req \in Range(file_selection_queue)


\* ------------------------------ claims on the registry under threads

\* C7: in every state, the intermediate states of load_gltf and
\* add_model_file included, current_file is None or an entry of model_files.
C7_CurrentIsRegistered ==
    current_file = NoPath \/ current_file \in Range(model_files)

\* C8: model_files never holds the same path twice, however the handler
\* threads inside add_model_file and the UI thread inside load_gltf interleave.
C8_NoDuplicates ==
    \A f \in Range(model_files) : Count(model_files, f) = 1

\* ------------------------------------------- claims on the responses

\* The name a request on the /model/ route asks for.
RequestedModelName(raw) == RemoveModelPrefix(ParsePath(raw))

\* The step that answers the pending request.
Answers == http_response = NoResponse /\ http_response' # NoResponse

\* No registered file, and not the current file, has this base name.
UnknownModelName(file_name) ==
    /\ \A f \in Range(model_files) : Basename(f) # file_name
    /\ current_file = NoPath \/ Basename(current_file) # file_name

Headers(resp) == [status |-> resp.status, ctype |-> resp.ctype,
                  length |-> resp.length, cors |-> resp.cors]

\* C15: on every route a HEAD request is answered with the status and
\* headers of the corresponding GET and with no body.
C15_HeadLikeGetNoBody ==
    [][(Answers /\ http_request.command = "HEAD") =>
          /\ http_response'.body = None
          /\ Headers(http_response') =
                 Headers(do_GET(http_request.path, "GET", model_files, current_file,
                                file_cache).resp)]_vars

\* C16: every response carries Access-Control-Allow-Origin: *.
C16_AlwaysCors == http_response # NoResponse => http_response.cors

\* ------------------------------------ claims on the starts of the server

\* The call that returned in this step went past the guard of
\* _start_local_server and probed the ports.
StartProbed == last_call' # last_call /\ last_call'.started

\* C19: every start probes the fixed range that begins at port 8765,
\* whichever port an earlier start bound, and so binds inside it.
C19_FixedProbeRange ==
    [][StartProbed =>
          /\ server_port = FirstPort
          /\ Listening([http_server |-> http_server', server_thread |-> server_thread',
                        server_port |-> server_port', server_started |-> server_started'])
                => server_port' \in ProbedPorts(FirstPort)]_vars

\* C20: _start_local_server called while the server is running changes none
\* of http_server, server_thread, server_port and server_started.
C20_StartWhileRunningNoOp ==
    [][(/\ last_call'.op = "start_local_server"
        /\ is_server_running(Srv)) => UNCHANGED serverVars]_vars

\* _start_local_server has been called on a running server, which still
\* listens on the port it had.
C20_Witness ==
    /\ last_call.op = "start_local_server" /\ ~last_call.started
    /\ server_started /\ Listening(Srv) /\ server_thread = "serving"

\* --------------------------------- claims on POST /api/add-model

\* Thread t answers its POST in this step.
PostAnswered(t) == PostPending(t) /\ post'[t].response # NoPostResponse

\* Thread t has an unanswered POST whose handler was given no app reference.
NoAppPost(t) == PostPending(t) /\ post[t].request.app_ref = None

\* The handler of a POST without app reference never asks for a file, and
\* its answer changes neither the dialog queue nor the registry.
NoAppPostIsInert(t) ==
    /\ handler'[t].pc = "idle"
    /\ PostAnswered(t) =>
          UNCHANGED <<file_selection_queue, selection_requests, model_files, current_file>>

\* C11 as stated: a POST /api/add-model handled without app reference is
\* answered 500 with the error "Desktop app not available"; no dialog
\* request is queued and no file is registered.
C11_Original ==
    [][\A t \in Handlers : NoAppPost(t) =>
          /\ NoAppPostIsInert(t)
          /\ PostAnswered(t) =>
                post'[t].response =
                    PostResponse(500, FALSE, "Desktop app not available", <<>>, 0, 1)]_vars

\* C11 amended: the answer is 500 with success false, its error "Desktop
\* app not available" unless the Content-Length header is no integer, in
\* which case the error is the text of the exception int() raised; no dialog
\* request is queued and no file is registered.
C11_NoAppAnswered500 ==
    [][\A t \in Handlers : NoAppPost(t) =>
          /\ NoAppPostIsInert(t)
          /\ PostAnswered(t) =>
                post'[t].response =
                    PostResponse(500, FALSE,
                                 IF post[t].request.content_length = "malformed"
                                 THEN "ValueError" ELSE "Desktop app not available",
                                 <<>>, 0, 1)]_vars

\* A POST with a well-formed header has been answered "Desktop app not
\* available" by a handler constructed before set_app_reference.
C11_Witness ==
    \E t \in Handlers :
        /\ post[t].request.app_ref = None
        /\ post[t].request.content_length = "integer"
        /\ post[t].response.status = 500
        /\ post[t].response.error = "Desktop app not available"

\* request_file_selection has returned None to thread t's handler.
DialogGaveNothing(t) ==
    PostPending(t) /\ handler[t].pc = "returned" /\ handler[t].file_path = NoPath

\* C12: when request_file_selection returns None (the dialog cancelled or
\* declined, or the wait timed out), the answer is 200 with success false
\* and model_files, current_file and the external-update queue are unchanged.
C12_NoFileAnswered200 ==
    [][\A t \in Handlers : (DialogGaveNothing(t) /\ handler'[t] # handler[t]) =>
          /\ post'[t].response.status = 200
          /\ ~post'[t].response.success
          /\ post'[t].response.error = "No file selected"
          /\ UNCHANGED <<model_files, current_file, external_update_queue>>]_vars

\* A POST has been answered "No file selected" after an earlier one had
\* registered a file.
C12_Witness ==
    \E t \in Handlers :
        /\ post[t].response = PostResponse(200, FALSE, "No file selected", <<>>, 0, 1)
        /\ model_files # <<>> /\ current_file # NoPath

\* Thread t's handler holds an existing file that the dialog gave it.
DialogGaveFile(t, f) ==
    /\ handler[t].pc \in {"returned", "registered", "notified"}
    /\ handler[t].file_path = f /\ FileChosen(f)

AppLoaded(f) ==
    \E i \in 1..Len(loaded_files) : loaded_files[i] = [path |-> f, source |-> "Browser"]

\* The success response of thread t is sent in this step.
SuccessSent(t) == PostAnswered(t) /\ post'[t].response.success

\* C13: when the dialog gives a POST /api/add-model an existing file, the
\* file is in model_files, and on the external-update queue or already
\* applied, when the success response is sent; with the UI tick running the
\* path eventually is in loaded_files with source "Browser".
C13_RegisteredThenLoaded ==
    /\ [][\A t \in Handlers : SuccessSent(t) =>
             /\ handler[t].file_path \in Range(model_files)
             /\ \/ handler[t].file_path \in Range(external_update_queue)
                \/ AppLoaded(handler[t].file_path)
             /\ post'[t].response.fileUrl = ModelUrl(handler[t].file_path)
             /\ post'[t].response.fileSize = FileSize(handler[t].file_path)]_vars
    /\ \A t \in Handlers, f \in DialogPaths : DialogGaveFile(t, f) ~> AppLoaded(f)

\* The success response for ModelB has been sent while the UI thread had not
\* yet applied the update: ModelB is registered and queued, not yet loaded.
C13_Witness ==
    \E t \in Handlers :
        /\ post[t].response.success
        /\ post[t].response.fileSize = FileSize(ModelB)
        /\ ModelB \in Range(model_files)
        /\ ModelB \in Range(external_update_queue)
        /\ ~AppLoaded(ModelB)

\* C17: handler threads never perform GUI-toolkit operations themselves;
\* what they do to the UI goes through the two queues.
C17_HandlersOffToolkit == toolkit_calls = {}

\* C18: stop_server returns without waiting for in-flight handlers: the UI
\* thread is never held inside stop_server while a handler is blocked in
\* request_file_selection.
C18_StopDoesNotWait == ui.pc = "stopping" => \A t \in Handlers : ~Waiting(t)

\* The words of a part name: its longest runs of word characters.
RECURSIVE SplitWords(_, _)
SplitWords(s, cur) ==
    IF s = <<>> THEN {cur}
    ELSE IF IsWordChar(Head(s)) THEN SplitWords(Tail(s), Append(cur, Head(s)))
    ELSE {cur} \cup SplitWords(Tail(s), <<>>)

\* The keywords, by their place in the list, that are a word of the name up
\* to case.
KeywordsIn(part_name) ==
    {k \in 1..Len(keywords) :
        \E w \in SplitWords(part_name, <<>>) :
            Len(w) = 1 /\ Lower(w[1]) = Lower(keywords[k])}

\* <exportFolder>/<sanitized part name>/<K>.png
PartPhotoPath(folder, part_name) ==
    LET K == IF KeywordsIn(part_name) = {} THEN safe_part_name(part_name)
             ELSE <<keywords[Min(KeywordsIn(part_name))]>>
    IN  folder \o <<safe_part_name(part_name), K \o <<".png">> >>

\* Thread t has saved the image of a request that names a part and no file.
PartPhotoSaved(t) ==
    /\ post[t].request \in CaptureRequests
    /\ post[t].request.part_name # <<>> /\ post[t].request.filename = NoName
    /\ post[t].response.success

\* C21: a capture POST with a part name and no filename writes the image to
\* <exportFolder>/<sanitized part name>/<K>.png, K the first keyword of the
\* list that is a whole word of the part name up to case, or the sanitized
\* part name when there is none, and the response reports that path.
C21_PartPhotoPath ==
    [][\A t \in Handlers :
          (PartPhotoSaved(t)' /\ post'[t] # post[t]) =>
              LET path == PartPhotoPath(export_folder, post'[t].request.part_name)
              IN  /\ post'[t].response.filePath = path
                  /\ [path |-> path, content |-> "image"] \in export_files']_vars

\* The name holds two keywords as words; the one earlier in the list gives
\* the file its name.
C21_Witness ==
    \E t \in Handlers :
        /\ PartPhotoSaved(t)
        /\ post[t].request.part_name = <<"Rear", " ", "front">>
        /\ post[t].response.filePath =
               <<<<"export">>, <<"Rear", " ", "front">>, <<"Front", ".png">> >>
        /\ \E f \in export_files : f.path = post[t].response.filePath

\* Thread t answers a capture request in this step, and not with success.
CaptureFails(t) ==
    /\ post'[t] # post[t]
    /\ post'[t].request \in CaptureRequests
    /\ ~post'[t].response.success

\* The request fails on its payload or on the export folder, before the
\* handler makes a folder or opens a file.
FailsBeforeWriting(resp) ==
    resp.error \notin {"Failed to create part folder", "Failed to save image"}

\* C22: every failing capture-image request is answered with a structured
\* JSON error {success:false, error} and leaves model_files, current_file,
\* export_folder and both queues unchanged; on the payload and export-folder
\* failures no file is written.
C22_FailureIsStructuredAndInert ==
    [][\A t \in Handlers :
          CaptureFails(t) =>
              /\ BodyIsJson(post'[t].response)
              /\ post'[t].response.error # None
              /\ UNCHANGED <<model_files, current_file, export_folder,
                             file_selection_queue, external_update_queue>>
              /\ FailsBeforeWriting(post'[t].response) => UNCHANGED export_files]_vars

\* C23: after _on_clear completes, in any reachable state, the session is
\* empty and inactive: current_scene is None, loaded_files is empty and the
\* viewer's current_file is None.
C23_ClearEmptiesSession ==
    [][OnClear => (current_scene' = NoPath /\ loaded_files' = <<>>
                   /\ current_file' = NoPath)]_vars

\* The paths of the entries, in their order.
LoadedPaths(lf) == [i \in 1..Len(lf) |-> lf[i].path]

\* The entry of a path that is in the list.
EntryOf(lf, file_path) == lf[CHOOSE i \in 1..Len(lf) : lf[i].path = file_path]

\* What a call that loads file_path does to the list and the scene.
LoadsInPlace(file_path, source) ==
    /\ IF file_path \in Range(LoadedPaths(loaded_files))
       THEN LoadedPaths(loaded_files') = LoadedPaths(loaded_files)
       ELSE LoadedPaths(loaded_files') = Append(LoadedPaths(loaded_files), file_path)
    /\ EntryOf(loaded_files', file_path).source = source
    /\ \A i \in 1..Len(loaded_files) :
          loaded_files[i].path # file_path => loaded_files'[i] = loaded_files[i]
    /\ current_scene' = file_path

\* C24: after any sequence of _handle_new_scene calls loaded_files holds at
\* most one entry per path, in order of first load; loading a path already
\* present updates its entry in place, and current_scene is the scene of the
\* most recently loaded path.
C24_OneEntryPerPath ==
    /\ [](\A i, j \in 1..Len(loaded_files) :
             loaded_files[i].path = loaded_files[j].path => i = j)
    /\ [][\A file_path \in ModelPaths \cup {NoPath}, from_browser \in BOOLEAN :
             HandleNewScene(file_path, from_browser) =>
                 IF file_path # NoPath /\ PathExists(file_path)
                 THEN LoadsInPlace(file_path, source_label(from_browser))
                 ELSE UNCHANGED <<loaded_files, current_scene>>]_vars

\* A path loaded first from the browser is loaded again from the desktop
\* after another path: its entry stays first and changes its tag.
C24_Witness ==
    /\ Len(loaded_files) = 2
    /\ loaded_files[1] = [path |-> ModelA, source |-> "Desktop"]
    /\ loaded_files[2] = [path |-> ModelB, source |-> "Browser"]
    /\ current_scene = ModelA

\* C25: a load error reported by the renderer leaves current_scene,
\* loaded_files, current_file and model_files as they were.
C25_ErrorKeepsSession ==
    [][OnModelError =>
          UNCHANGED <<current_scene, loaded_files, current_file, model_files>>]_vars

\* The error is reported while a file is the active scene.
C25_Witness ==
    /\ last_call.op = "on_model_error_callback"
    /\ current_scene # NoPath /\ loaded_files # <<>>
    /\ current_file # NoPath /\ model_files # <<>>

\* A run of the poll that took a request ends in this step.
PollRunEnds == Len(dialog_stack') < Len(dialog_stack)

\* C28: each run of _poll_file_selection_queue dequeues at most one dialog
\* request, and every request it dequeues has its result event set before
\* the run ends, whether the dialog returned a path, was cancelled or
\* raised.
C28_OneRequestResolvedPerRun ==
    /\ [](Len(dialog_stack) <= 1)
    /\ [][Len(file_selection_queue') >= Len(file_selection_queue) - 1]_vars
    /\ [][PollRunEnds =>
             selection_requests'[dialog_stack[Len(dialog_stack)]].event]_vars

\* C29: a dialog request's lifetime ends at its deadline: once
\* request_file_selection has returned None by timeout, the UI tick never
\* afterwards presents that request to the user as a file dialog.
C29_TimedOutNeverShown ==
    [][\A r \in 1..Len(selection_requests) :
          (/\ r \notin Range(dialog_stack) /\ r \in Range(dialog_stack')
           /\ ~selection_requests[r].event)
          => \E t \in Handlers : Waiting(t) /\ handler[t].req = r]_vars

\* C30: the UI tick never stops: after every run of the poll, those in which
\* the dialog or an external update raised included, another run is
\* scheduled, so every enqueued dialog request and every enqueued external
\* update is eventually dequeued.
C30_TickNeverStops ==
    /\ [](dialog_stack = <<>> => scheduled_polls > 0)
    /\ \A r \in 1..MaxRequests :
          (r \in Range(file_selection_queue)) ~> (r \notin Range(file_selection_queue))
    /\ \A f \in ExternalPaths :
          (f \in Range(external_update_queue)) ~> (f \notin Range(external_update_queue))

\* A run of the poll has ended in an exception from an external update,
\* with another update left on the queue and a dialog request waiting.
C30_Witness ==
    /\ last_call = PollingError
    /\ external_update_queue # <<>>
    /\ file_selection_queue # <<>>
    /\ scheduled_polls > 0

\* The request is for the entry document.
IndexRequest == http_request.command \in Commands /\ IsIndexRoute(ParsePath(http_request.path))

\* C31: the response to GET / or /index.html does not depend on the session:
\* status, headers and body are the same whether current_file is unset, set
\* or set to another file, whatever files are registered.
C31_IndexIgnoresSession ==
    IndexRequest =>
        /\ \A cf \in ModelPaths \cup {NoPath} :
              do_GET(http_request.path, http_request.command, model_files, cf,
                     file_cache).resp
                = do_GET(http_request.path, http_request.command, <<>>, NoPath, {}).resp
        /\ http_response # NoResponse =>
              http_response
                = do_GET(http_request.path, http_request.command, <<>>, NoPath, {}).resp

\* The entry document has been served while a file is current.
C31_Witness ==
    /\ IndexRequest
    /\ http_response.status = 200
    /\ current_file = ModelA
    /\ model_files # <<>>

\* C32: a connection reset by the client while a response body is written
\* is absorbed inside the handler on every GET route, the /model/ streaming
\* route and the static route alike: no exception leaves do_GET and the
\* session state is unchanged.
C32_ResetAbsorbed ==
    [][AnswerReset =>
          /\ http_response'.raised = None
          /\ UNCHANGED <<registryVars, serverVars, appVars, app_ref, export_folder,
                         export_files>>]_vars

\* C33: a capture-image POST with an empty body (Content-Length 0) gets
\* exactly one HTTP response, status 400 with the JSON body {success: false,
\* error: "No image data provided"}; every POST to an API route emits exactly
\* one status line.
C33_OneResponsePerPost ==
    \A t \in Handlers :
        (post[t].request \in CaptureRequests /\ post[t].response # NoPostResponse) =>
            /\ post[t].response.lines = 1
            /\ post[t].request.content_length = "absent" =>
                  /\ post[t].response.status = 400
                  /\ ~post[t].response.success
                  /\ post[t].response.error = "No image data provided"

\* The location a back-end's static route is asked for.
BackendLocation == 
    Resolve(JoinPath(viewer_dir,
                     IF http_request.backend = "pywebview"
                     THEN ReplaceBackslash(Lstrip(BackendPath("pywebview", http_request.path)))
                     ELSE BackendPath(http_request.backend, http_request.path)))

\* The request is on the static route of its back-end.
BackendStatic ==
    LET path == BackendPath(http_request.backend, http_request.path)
    IN  ~IsIndexRoute(path) /\ (http_request.backend = "tkinter" \/ ~IsModelRoute(path))

\* C34: the asset-root sandbox holds in the HTTP handler of every renderer
\* back-end (pywebview, embedded CEF, Tkinter): a GET whose path resolves
\* outside the viewer directory never has file contents served.
C34_SandboxInEveryBackend ==
    (/\ http_response # NoResponse /\ BackendStatic
     /\ ~IsPrefix(viewer_dir, BackendLocation))
    => /\ http_response.body = None
       /\ http_response.status = 404

\* C35: after the application object is constructed and before any user
\* action the HTTP server is stopped; it starts only when Open Browser is
\* requested (which calls _start_local_server and open_browser_viewer) or
\* the first file is loaded.
C35_StoppedUntilAsked ==
    /\ [](last_call = NoCall => ~is_server_running(Srv))
    /\ [][(~is_server_running(Srv) /\ is_server_running(Srv)') =>
              last_call'.op \in {"start_local_server", "open_browser_viewer",
                                 "load_gltf"}]_vars

\* C36: capture-image never writes outside the configured export folder:
\* for every partName and filename in the request, the file written lies
\* inside export_folder, directly or inside the per-part subdirectory.
C36_WritesInsideExportFolder ==
    [][\A f \in export_files' \ export_files :
          /\ export_folder # NoPath
          /\ IsPrefix(export_folder, Resolve(f.path))]_vars

\* C37: a file selection made before a clear does not come back after it:
\* an external update that notify_browser_file_loaded queued before _on_clear
\* ran is not applied afterwards, so current_scene and loaded_files stay
\* empty until a selection made after the clear. Every selection registers
\* its file with add_model_file before it is notified, so while _on_clear is
\* the last operation on the viewer no later selection has been notified.
C37_ClearedStaysCleared ==
    last_call.op = "on_clear" => (current_scene = NoPath /\ loaded_files = <<>>)

\* Both queues are empty, no dialog is open and no thread is inside a
\* request or a call.
Quiescent ==
    /\ file_selection_queue = <<>>
    /\ external_update_queue = <<>>
    /\ dialog_stack = <<>>
    /\ ui.pc = "idle"
    /\ \A t \in Handlers : handler[t].pc = "idle" /\ ~InFlight(t)

\* C38: quiescent agreement of app and viewer: whenever both queues are
\* empty and no HTTP handler is inside a request, the app's active file
\* (current_scene.file_path) is the viewer's current_file, both unset or
\* the same path, for every interleaving of concurrent add-model requests
\* and UI actions.
C38_QuiescentAgreement == Quiescent => current_scene = current_file

\* load_gltf returns False in this step.
LoadGltfFails == (\E f \in ModelPaths : LoadGltf(f)) /\ ~last_call'.result

\* C39: load_gltf is all-or-nothing: whenever it returns False (file
\* missing, server not ready, port unreachable, browser failed to open),
\* current_file and model_files are as they were before the call.
C39_FailedLoadChangesNothing ==
    [][LoadGltfFails => UNCHANGED <<current_file, model_files>>]_vars

=============================================================================
